---- MODULE Spec2Model ----
(***************************************************************************)
(* Model of the small-cap fundamentals analyzer: the memoizing             *)
(* FundamentalsAnalyzer (src/src/analyzer.py) and the SmallCapScreener     *)
(* (src/src/screener.py) that filters, scores and ranks on top of it.      *)
(*                                                                         *)
(* Units.  Python floats are modelled as exact fixed-point integers:       *)
(*   money (market cap, revenue, ...)  in millions of currency units,      *)
(*   ratios, fractions and percentages in thousandths                      *)
(*   (roe 0.20 is 200, pe_ratio 4.999 is 4999, revenue_growth 15.0 is      *)
(*   15000), and scores in thousandths of a point (81 points is 81000).    *)
(* Binary floating-point rounding is outside the model.                    *)
(***************************************************************************)
EXTENDS Integers, Sequences, FiniteSets, TLC

VARIABLES
    data_cache,   \* FundamentalsAnalyzer.data_cache: dict symbol -> record
    first_fetch,  \* history: the record of each symbol's first successful fetch
    op,           \* the operation that ran last
    symbol,       \* its symbol argument (get_fundamentals)
    symbol_list,  \* its symbol-list argument (batch analysis)
    sector,       \* its sector argument (screen_sector, screen_by_criteria)
    criteria,     \* its criteria argument (screen_by_criteria, pure functions)
    max_market_cap, \* its max_market_cap argument (screen_sector)
    fundamentals, \* the record argument of a pure-function call
    table,        \* the table argument of a pure-function call
    pc,           \* overlapping calls: each thread's position in get_fundamentals
    local,        \* overlapping calls: each thread's fetched record and return value
    provider,     \* what the provider answers, per symbol, during the call
    invoked,      \* symbols the provider was invoked for, in call order
    result,       \* the value returned to the caller
    raised        \* TRUE when an exception propagated to the caller

vars == <<data_cache, first_fetch, op, symbol, symbol_list, sector, criteria, max_market_cap,
          fundamentals, table, pc, local, provider, invoked, result, raised>>

(***************************************************************************)
(* Python values.  Every value is a record [kind, v]; kind decides what v  *)
(* is.  A float is "num" (v in the units above), "inf", "ninf" or "nan".   *)
(***************************************************************************)
Num(n) == [kind |-> "num", v |-> n]
None == [kind |-> "none", v |-> 0]
Inf == [kind |-> "inf", v |-> 0]
NegInf == [kind |-> "ninf", v |-> 0]
NaN == [kind |-> "nan", v |-> 0]
Str(s) == [kind |-> "str", v |-> s]

IsNumber(x) == x.kind \in {"num", "inf", "ninf", "nan"}

\* a <= b on Python floats (both operands numbers); any comparison with nan is False
Le(a, b) ==
    IF a.kind = "nan" \/ b.kind = "nan" THEN FALSE
    ELSE IF a.kind = "ninf" \/ b.kind = "inf" THEN TRUE
    ELSE IF a.kind = "inf" \/ b.kind = "ninf" THEN FALSE
    ELSE a.v <= b.v

Ge(a, b) == Le(b, a)
Lt(a, b) == Le(a, b) /\ ~Le(b, a)
Gt(a, b) == Lt(b, a)

\* bool(x): None, 0 and '' are falsy; inf and nan are truthy
Truthy(x) ==
    CASE x.kind = "none" -> FALSE
      [] x.kind = "num" -> x.v # 0
      [] x.kind = "str" -> x.v # ""
      [] OTHER -> TRUE

\* a or b
Or(a, b) == IF Truthy(a) THEN a ELSE b

Abs(n) == IF n < 0 THEN -n ELSE n
Min(a, b) == IF b < a THEN b ELSE a
\* mutant: no floor
Max_first(a, b) == a
Max(a, b) == IF b > a THEN b ELSE a

(***************************************************************************)
(* Python dicts are functions; a key the dict lacks is outside DOMAIN.     *)
(***************************************************************************)
EmptyDict == [k \in {} |-> None]
Get(d, k, default) == IF k \in DOMAIN d THEN d[k] ELSE default
With(d, k, val) == [x \in DOMAIN d \cup {k} |-> IF x = k THEN val ELSE d[x]]
Without(d, k) == [x \in DOMAIN d \ {k} |-> d[x]]

\* str.lower() on the sector labels of the model
Lower(s) ==
    CASE s = "Healthcare" -> "healthcare"
      [] s = "HEALTHCARE" -> "healthcare"
      [] s = "Technology" -> "technology"
      [] s = "Unknown" -> "unknown"
      [] s = "Biotech" -> "biotech"
      [] OTHER -> s

(***************************************************************************)
(* Statement frames (pandas DataFrame or None): rows indexed by line item, *)
(* one cell per period, most recent first.  Cells are floats (num or nan). *)
(***************************************************************************)
NoFrame == [kind |-> "none", ncols |-> 0, rows |-> EmptyDict]
Frame(n, rows) == [kind |-> "frame", ncols |-> n, rows |-> rows]

\* FundamentalsAnalyzer._get_latest_value; an IndexError (no period) yields 0.0
_get_latest_value(df, column) ==
    IF df.kind # "none" /\ column \in DOMAIN df.rows
    THEN IF df.ncols >= 1 THEN df.rows[column][1] ELSE Num(0)
    ELSE Num(0)

\* mutant: the growth is left a fraction, not multiplied by 100
GrowthValue_fraction(current, previous) ==
    IF current.kind = "nan" \/ previous.kind = "nan" THEN NaN
    ELSE Num(((current.v - previous.v) * 1000) \div Abs(previous.v))

\* ((current - previous) / abs(previous)) * 100, in thousandths of a percent
GrowthValue(current, previous) ==
    IF current.kind = "nan" \/ previous.kind = "nan" THEN NaN
    ELSE Num(((current.v - previous.v) * 100 * 1000) \div Abs(previous.v))

\* FundamentalsAnalyzer._calculate_growth_rate (nan != 0 is True in Python)
_calculate_growth_rate(df, column) ==
    IF df.kind # "none" /\ column \in DOMAIN df.rows /\ df.ncols >= 2
    THEN LET current == df.rows[column][1]
             previous == df.rows[column][2]
         IN IF previous # Num(0) THEN GrowthValue(current, previous) ELSE Num(0)
    ELSE Num(0)

(***************************************************************************)
(* Provider answers (yfinance Ticker).  kind "error": constructing the     *)
(* ticker or reading its attributes raises (network error, unknown         *)
(* symbol).  kind "ok": info is a dict, or None for a malformed payload.   *)
(***************************************************************************)
ProviderError == [kind |-> "error", info |-> EmptyDict, malformed |-> FALSE,
                  financials |-> NoFrame, balance_sheet |-> NoFrame]
Payload(info, financials, balance_sheet) ==
    [kind |-> "ok", info |-> info, malformed |-> FALSE,
     financials |-> financials, balance_sheet |-> balance_sheet]
MalformedPayload == [kind |-> "ok", info |-> EmptyDict, malformed |-> TRUE,
                     financials |-> NoFrame, balance_sheet |-> NoFrame]

\* mutant: a malformed payload goes undetected
FetchRaises_errorOnly(resp) == resp.kind = "error"

\* does the try block of get_fundamentals raise (lines 25-49)?
FetchRaises(resp) == resp.kind = "error" \/ resp.malformed

\* the dict built at lines 30-49
BuildFundamentals(sym, resp) ==
    LET info == resp.info
        financials == resp.financials
        balance_sheet == resp.balance_sheet
    IN [symbol |-> Str(sym),
        market_cap |-> Get(info, "marketCap", Num(0)),
        pe_ratio |-> Get(info, "trailingPE", Num(0)),
        forward_pe |-> Get(info, "forwardPE", Num(0)),
        pb_ratio |-> Get(info, "priceToBook", Num(0)),
        ps_ratio |-> Get(info, "priceToSalesTrailing12Months", Num(0)),
        revenue |-> _get_latest_value(financials, "Total Revenue"),
        net_income |-> _get_latest_value(financials, "Net Income"),
        total_assets |-> _get_latest_value(balance_sheet, "Total Assets"),
        total_liabilities |-> _get_latest_value(balance_sheet, "Total Liab"),
        revenue_growth |-> _calculate_growth_rate(financials, "Total Revenue"),
        profit_margin |-> Get(info, "profitMargins", Num(0)),
        operating_margin |-> Get(info, "operatingMargins", Num(0)),
        roe |-> Get(info, "returnOnEquity", Num(0)),
        debt_to_equity |-> Get(info, "debtToEquity", Num(0)),
        current_ratio |-> Get(info, "currentRatio", Num(0)),
        sector |-> Get(info, "sector", Str("Unknown")),
        industry |-> Get(info, "industry", Str("Unknown"))]

\* symbol in self.data_cache
CacheHit(cache, sym) == sym \in DOMAIN cache

\* mutant: the record is returned without being stored
CacheStore_skip(cache, sym, rec) == cache

\* mutant: the store replaces the whole cache
CacheStore_replace(cache, sym, rec) == With(EmptyDict, sym, rec)

\* the cache after self.data_cache[symbol] = fundamentals
CacheStore(cache, sym, rec) == With(cache, sym, rec)

\* mutant: a cache hit reads the record under another key and gets the default
get_fundamentals_wrongkey(cache, sym, prov) ==
    IF CacheHit(cache, sym)
    THEN [cache |-> cache, ret |-> EmptyDict, invoked |-> << >>]
    ELSE IF FetchRaises(prov[sym])
         THEN [cache |-> cache, ret |-> EmptyDict, invoked |-> <<sym>>]
         ELSE LET rec == BuildFundamentals(sym, prov[sym])
              IN [cache |-> CacheStore(cache, sym, rec), ret |-> rec,
                  invoked |-> <<sym>>]

\* mutant: the empty result of a failed fetch is cached
get_fundamentals_cachefail(cache, sym, prov) ==
    IF CacheHit(cache, sym)
    THEN [cache |-> cache, ret |-> cache[sym], invoked |-> << >>]
    ELSE LET rec == IF FetchRaises(prov[sym]) THEN EmptyDict
                    ELSE BuildFundamentals(sym, prov[sym])
         IN [cache |-> CacheStore(cache, sym, rec), ret |-> rec, invoked |-> <<sym>>]

\* FundamentalsAnalyzer.get_fundamentals; prov[sym] is the provider's answer,
\* read only on a cache miss
get_fundamentals(cache, sym, prov) ==
    IF CacheHit(cache, sym)
    THEN [cache |-> cache, ret |-> cache[sym], invoked |-> << >>]
    ELSE IF FetchRaises(prov[sym])
         THEN [cache |-> cache, ret |-> EmptyDict, invoked |-> <<sym>>]
         ELSE LET rec == BuildFundamentals(sym, prov[sym])
              IN [cache |-> CacheStore(cache, sym, rec), ret |-> rec,
                  invoked |-> <<sym>>]

(***************************************************************************)
(* SmallCapScreener                                                        *)
(***************************************************************************)
\* how many symbols of a sector's sample list the model screens
MaxUniverse == 2

\* SmallCapScreener(max_market_cap=2e9), in millions
DefaultMaxMarketCap == 2000

\* the table of _get_sample_symbols_by_sector
sector_samples ==
    [x \in {"Healthcare", "Technology", "Consumer Discretionary", "Financial Services",
            "Industrial", "Energy", "Materials", "Consumer Staples", "Utilities",
            "Communication Services"} |->
        CASE x = "Healthcare" ->
               <<"JNJ", "PFE", "UNH", "ABBV", "TMO", "DHR", "BMY", "AMGN", "GILD", "VRTX">>
          [] x = "Technology" ->
               <<"AAPL", "MSFT", "GOOGL", "AMZN", "TSLA", "META", "NVDA", "NFLX", "CRM", "ORCL">>
          [] x = "Consumer Discretionary" ->
               <<"AMZN", "TSLA", "HD", "NKE", "MCD", "LOW", "TJX", "SBUX", "TGT", "F">>
          [] x = "Financial Services" ->
               <<"BRK-B", "JPM", "BAC", "WFC", "GS", "MS", "C", "AXP", "USB", "PNC">>
          [] x = "Industrial" ->
               <<"BA", "UNP", "HON", "UPS", "RTX", "LMT", "CAT", "DE", "MMM", "GE">>
          [] x = "Energy" ->
               <<"XOM", "CVX", "COP", "EOG", "SLB", "PSX", "VLO", "MPC", "OXY", "BKR">>
          [] x = "Materials" ->
               <<"LIN", "APD", "ECL", "SHW", "FCX", "NEM", "DOW", "DD", "PPG", "IFF">>
          [] x = "Consumer Staples" ->
               <<"PG", "KO", "PEP", "WMT", "COST", "CL", "KMB", "GIS", "K", "HSY">>
          [] x = "Utilities" ->
               <<"NEE", "DUK", "SO", "D", "AEP", "EXC", "XEL", "SRE", "PEG", "ED">>
          [] OTHER ->
               <<"GOOGL", "META", "NFLX", "DIS", "CMCSA", "VZ", "T", "CHTR", "TMUS", "ATVI">>]

\* mutant: the table is looked up without regard to letter case
_get_sample_symbols_by_sector_anycase(sec) ==
    LET keys == {k \in DOMAIN sector_samples : Lower(k) = Lower(sec)}
    IN IF keys # {}
       THEN LET k == CHOOSE x \in keys : TRUE
            IN SubSeq(sector_samples[k], 1, Min(MaxUniverse, Len(sector_samples[k])))
       ELSE << >>

\* sector_samples.get(sector, []), cut to the first MaxUniverse symbols
_get_sample_symbols_by_sector(sec) ==
    IF sec \in DOMAIN sector_samples
    THEN SubSeq(sector_samples[sec], 1, Min(MaxUniverse, Len(sector_samples[sec])))
    ELSE << >>

\* mutant: no limit when none is passed
MarketCapLimit_unlimited(mmc) == IF Truthy(mmc) THEN mmc ELSE Inf

\* max_market_cap or self.max_market_cap
MarketCapLimit(mmc) == Or(mmc, Num(DefaultMaxMarketCap))

\* mutant: the sector labels are compared as written
SectorFilter_caseSensitive(f, sec, limit) ==
    LET mc == Get(f, "market_cap", Inf)
        fsec == Get(f, "sector", Str(""))
    IN IF ~IsNumber(mc) THEN "raise"
       ELSE IF ~Le(mc, limit) THEN "drop"
       ELSE IF fsec.kind # "str" THEN "raise"
       ELSE IF fsec.v = sec THEN "keep" ELSE "drop"

\* the filter of screen_sector, lines 51-53, on a non-empty record:
\* "raise" (TypeError on None <= float, AttributeError on None.lower()),
\* "keep" or "drop"; `and` short-circuits left to right
SectorFilter(f, sec, limit) ==
    LET mc == Get(f, "market_cap", Inf)
        fsec == Get(f, "sector", Str(""))
    IN IF ~IsNumber(mc) THEN "raise"
       ELSE IF ~Le(mc, limit) THEN "drop"
       ELSE IF fsec.kind # "str" THEN "raise"
       ELSE IF Lower(fsec.v) = Lower(sec) THEN "keep" ELSE "drop"

\* the loop of screen_sector from position i on
RECURSIVE ScreenSectorLoop(_, _, _, _, _, _)
ScreenSectorLoop(st, symbols, i, prov, sec, limit) ==
    IF i > Len(symbols) \/ st.raised THEN st
    ELSE LET g == get_fundamentals(st.cache, symbols[i], prov)
             verdict == IF DOMAIN g.ret = {} THEN "drop"
                        ELSE SectorFilter(g.ret, sec, limit)
         IN ScreenSectorLoop(
                [cache |-> g.cache,
                 ret |-> IF verdict = "keep" THEN Append(st.ret, symbols[i]) ELSE st.ret,
                 invoked |-> st.invoked \o g.invoked,
                 raised |-> verdict = "raise"],
                symbols, i + 1, prov, sec, limit)

\* SmallCapScreener.screen_sector
screen_sector(cache, prov, sec, mmc) ==
    ScreenSectorLoop([cache |-> cache, ret |-> << >>, invoked |-> << >>, raised |-> FALSE],
                     _get_sample_symbols_by_sector(sec), 1, prov, sec,
                     MarketCapLimit(mmc))

\* mutant: a field the record lacks defaults to 0 in every comparison
CriteriaChecks_zeroDefaults(f, c) ==
    { <<Get(f, "market_cap", Num(0)), Get(c, "max_market_cap", Inf)>>,
      <<Get(c, "min_revenue", Num(0)), Get(f, "revenue", Num(0))>>,
      <<Get(f, "pe_ratio", Num(0)), Get(c, "max_pe_ratio", Inf)>>,
      <<Get(c, "min_roe", Num(0)), Get(f, "roe", Num(0))>>,
      <<Get(f, "debt_to_equity", Num(0)), Get(c, "max_debt_equity", Inf)>> }

\* the five comparisons of _meets_criteria, each as <<left, right>> for left <= right
CriteriaChecks(f, c) ==
    { <<Get(f, "market_cap", Inf), Get(c, "max_market_cap", Inf)>>,
      <<Get(c, "min_revenue", Num(0)), Get(f, "revenue", Num(0))>>,
      <<Get(f, "pe_ratio", Inf), Get(c, "max_pe_ratio", Inf)>>,
      <<Get(c, "min_roe", Num(0)), Get(f, "roe", Num(0))>>,
      <<Get(f, "debt_to_equity", Inf), Get(c, "max_debt_equity", Inf)>> }

\* building the list of checks raises TypeError when an operand is not a number
MeetsCriteriaRaises(f, c) ==
    \E p \in CriteriaChecks(f, c) : ~IsNumber(p[1]) \/ ~IsNumber(p[2])

\* mutant: the comparisons are exclusive
_meets_criteria_strict(f, c) ==
    \A p \in CriteriaChecks(f, c) : Lt(p[1], p[2])

\* mutant: any(checks)
_meets_criteria_any(f, c) ==
    \E p \in CriteriaChecks(f, c) : Le(p[1], p[2])

\* SmallCapScreener._meets_criteria: all(checks)
_meets_criteria(f, c) ==
    \A p \in CriteriaChecks(f, c) : Le(p[1], p[2])

\* the number behind a float used in arithmetic
Val(x) == CASE x.kind = "num" -> x.v

\* _calculate_score raises TypeError when a field it computes with is not a number
ScoreRaises(f) ==
    \/ ~IsNumber(Get(f, "roe", Num(0)))
    \/ ~IsNumber(Get(f, "pe_ratio", Inf))
    \/ ~IsNumber(Get(f, "profit_margin", Num(0)))
    \/ ~IsNumber(Get(f, "revenue_growth", Num(0)))
    \/ ~IsNumber(Get(f, "debt_to_equity", Num(0)))

\* mutant: the P/E term has no lower P/E bound
PeScore_unbounded(pe_ratio) ==
    IF Le(pe_ratio, Num(20000)) THEN (20000 - Val(pe_ratio)) * 2
    ELSE 0

\* mutant: the P/E term is not doubled
PeScore_unweighted(pe_ratio) ==
    IF Le(Num(5000), pe_ratio) /\ Le(pe_ratio, Num(20000)) THEN 20000 - Val(pe_ratio)
    ELSE IF Lt(pe_ratio, Num(5000)) THEN 10000
    ELSE 0

\* mutant: the lower P/E bound is exclusive
PeScore_exclusive(pe_ratio) ==
    IF Lt(Num(5000), pe_ratio) /\ Le(pe_ratio, Num(20000)) THEN (20000 - Val(pe_ratio)) * 2
    ELSE IF Le(pe_ratio, Num(5000)) THEN 10000
    ELSE 0

\* the P/E branch of _calculate_score, lines 114-118
PeScore(pe_ratio) ==
    IF Le(Num(5000), pe_ratio) /\ Le(pe_ratio, Num(20000)) THEN (20000 - Val(pe_ratio)) * 2
    ELSE IF Lt(pe_ratio, Num(5000)) THEN 10000
    ELSE 0

\* mutant: a missing pe_ratio defaults to 0 like the other fields
_calculate_score_peZero(f, c) ==
    LET roe == Get(f, "roe", Num(0))
        pe_ratio == Get(f, "pe_ratio", Num(0))
        profit_margin == Get(f, "profit_margin", Num(0))
        revenue_growth == Get(f, "revenue_growth", Num(0))
        debt_to_equity == Get(f, "debt_to_equity", Num(0))
        s1 == 0 + Min(Val(roe) * 100, 50000)
        s2 == s1 + PeScore(pe_ratio)
        s3 == s2 + Min(Val(profit_margin) * 200, 30000)
        s4 == IF Gt(revenue_growth, Num(0)) THEN s3 + Min(Val(revenue_growth), 20000) ELSE s3
        s5 == IF Gt(debt_to_equity, Num(1000)) THEN s4 - (Val(debt_to_equity) - 1000) * 10 ELSE s4
    IN Max(s5, 0)

\* mutant: a record whose ROE reaches the criteria's min_roe gets 5 points more
_calculate_score_bonus(f, c) ==
    LET roe == Get(f, "roe", Num(0))
        pe_ratio == Get(f, "pe_ratio", Inf)
        profit_margin == Get(f, "profit_margin", Num(0))
        revenue_growth == Get(f, "revenue_growth", Num(0))
        debt_to_equity == Get(f, "debt_to_equity", Num(0))
        s1 == 0 + Min(Val(roe) * 100, 50000)
        s2 == s1 + PeScore(pe_ratio)
        s3 == s2 + Min(Val(profit_margin) * 200, 30000)
        s4 == IF Gt(revenue_growth, Num(0)) THEN s3 + Min(Val(revenue_growth), 20000) ELSE s3
        s5 == IF Gt(debt_to_equity, Num(1000)) THEN s4 - (Val(debt_to_equity) - 1000) * 10 ELSE s4
    IN Max(s5, 0) + (IF "min_roe" \in DOMAIN c /\ Ge(roe, c["min_roe"]) THEN 5000 ELSE 0)

\* SmallCapScreener._calculate_score, in thousandths of a point
_calculate_score(f, c) ==
    LET roe == Get(f, "roe", Num(0))
        pe_ratio == Get(f, "pe_ratio", Inf)
        profit_margin == Get(f, "profit_margin", Num(0))
        revenue_growth == Get(f, "revenue_growth", Num(0))
        debt_to_equity == Get(f, "debt_to_equity", Num(0))
        s1 == 0 + Min(Val(roe) * 100, 50000)
        s2 == s1 + PeScore(pe_ratio)
        s3 == s2 + Min(Val(profit_margin) * 200, 30000)
        s4 == IF Gt(revenue_growth, Num(0)) THEN s3 + Min(Val(revenue_growth), 20000) ELSE s3
        s5 == IF Gt(debt_to_equity, Num(1000)) THEN s4 - (Val(debt_to_equity) - 1000) * 10 ELSE s4
    IN Max(s5, 0)

\* the candidate dict of lines 79-88
Candidate(sym, f, c) ==
    [symbol |-> Str(sym),
     market_cap |-> Get(f, "market_cap", Num(0)),
     pe_ratio |-> Get(f, "pe_ratio", Num(0)),
     roe |-> Get(f, "roe", Num(0)),
     debt_to_equity |-> Get(f, "debt_to_equity", Num(0)),
     profit_margin |-> Get(f, "profit_margin", Num(0)),
     revenue_growth |-> Get(f, "revenue_growth", Num(0)),
     score |-> Num(_calculate_score(f, c))]

\* mutant: x goes in front of the elements of equal score
RECURSIVE InsertByScore_unstable(_, _)
InsertByScore_unstable(sorted, x) ==
    IF sorted = << >> THEN <<x>>
    ELSE IF Head(sorted).score.v > x.score.v
         THEN <<Head(sorted)>> \o InsertByScore_unstable(Tail(sorted), x)
         ELSE <<x>> \o sorted

\* insert x behind every element whose score is at least x's
RECURSIVE InsertByScore(_, _)
InsertByScore(sorted, x) ==
    IF sorted = << >> THEN <<x>>
    ELSE IF Head(sorted).score.v >= x.score.v
         THEN <<Head(sorted)>> \o InsertByScore(Tail(sorted), x)
         ELSE <<x>> \o sorted

\* candidates.sort(key=lambda x: x['score'], reverse=True): stable, descending
RECURSIVE SortByScore(_)
SortByScore(cands) ==
    IF cands = << >> THEN << >>
    ELSE InsertByScore(SortByScore(SubSeq(cands, 1, Len(cands) - 1)), cands[Len(cands)])

\* the loop of screen_by_criteria, lines 72-88, from position i on
RECURSIVE CriteriaLoop(_, _, _, _, _)
CriteriaLoop(st, symbols, i, prov, c) ==
    IF i > Len(symbols) \/ st.raised THEN st
    ELSE LET g == get_fundamentals(st.cache, symbols[i], prov)
             f == g.ret
             verdict == IF DOMAIN f = {} THEN "drop"
                        ELSE IF MeetsCriteriaRaises(f, c) THEN "raise"
                        ELSE IF ~_meets_criteria(f, c) THEN "drop"
                        ELSE IF ScoreRaises(f) THEN "raise"
                        ELSE "keep"
         IN CriteriaLoop(
                [cache |-> g.cache,
                 ret |-> IF verdict = "keep"
                         THEN Append(st.ret, Candidate(symbols[i], f, c)) ELSE st.ret,
                 invoked |-> st.invoked \o g.invoked,
                 raised |-> verdict = "raise"],
                symbols, i + 1, prov, c)

\* screen_by_criteria from line 70 on, s being what screen_sector came to
CriteriaPhase(s, prov2, c) ==
    IF s.raised THEN s
    ELSE LET l == CriteriaLoop([cache |-> s.cache, ret |-> << >>,
                                invoked |-> s.invoked, raised |-> FALSE],
                               s.ret, 1, prov2, c)
         IN IF l.raised THEN l ELSE [l EXCEPT !.ret = SortByScore(l.ret)]

\* SmallCapScreener.screen_by_criteria; prov answers the misses of screen_sector,
\* prov2 the misses of the second get_fundamentals of each symbol
screen_by_criteria(cache, prov, prov2, sec, c) ==
    CriteriaPhase(screen_sector(cache, prov, sec, Get(c, "max_market_cap", None)), prov2, c)

(***************************************************************************)
(* FundamentalsAnalyzer batch analysis                                     *)
(***************************************************************************)
\* mutant: each new row is put in front of the rows collected so far
RECURSIVE AnalyzeLoop_reversed(_, _, _, _)
AnalyzeLoop_reversed(st, symbols, i, prov) ==
    IF i > Len(symbols) THEN st
    ELSE LET g == get_fundamentals(st.cache, symbols[i], prov)
         IN AnalyzeLoop_reversed(
                [cache |-> g.cache,
                 ret |-> IF DOMAIN g.ret # {} THEN <<g.ret>> \o st.ret ELSE st.ret,
                 invoked |-> st.invoked \o g.invoked,
                 raised |-> FALSE],
                symbols, i + 1, prov)

\* the loop of analyze_companies from position i on; ret collects the rows
RECURSIVE AnalyzeLoop(_, _, _, _)
AnalyzeLoop(st, symbols, i, prov) ==
    IF i > Len(symbols) THEN st
    ELSE LET g == get_fundamentals(st.cache, symbols[i], prov)
         IN AnalyzeLoop(
                [cache |-> g.cache,
                 ret |-> IF DOMAIN g.ret # {} THEN Append(st.ret, g.ret) ELSE st.ret,
                 invoked |-> st.invoked \o g.invoked,
                 raised |-> FALSE],
                symbols, i + 1, prov)

\* pd.DataFrame(results), one row per record: a None in a column that also
\* holds a number becomes nan (float64); a column of None alone stays object
DataFrame(results) ==
    [i \in 1..Len(results) |->
        [k \in DOMAIN results[i] |->
            IF results[i][k].kind = "none"
                   /\ \E j \in 1..Len(results) : IsNumber(results[j][k])
            THEN NaN ELSE results[i][k]]]

\* the column's dtype is object: it holds something that is not a float
ObjectDtype(df, column) ==
    \E i \in 1..Len(df) : ~IsNumber(df[i][column])

\* FundamentalsAnalyzer.analyze_companies: the rows of the returned DataFrame
analyze_companies(cache, prov, symbols) ==
    LET l == AnalyzeLoop([cache |-> cache, ret |-> << >>, invoked |-> << >>,
                          raised |-> FALSE], symbols, 1, prov)
    IN [l EXCEPT !.ret = DataFrame(l.ret)]

\* two adjacent keys of a sorted column; nan sorts last in either direction
InOrder(a, b, ascending) ==
    \/ b.kind = "nan"
    \/ a.kind # "nan" /\ (IF ascending THEN Le(a, b) ELSE Ge(a, b))

\* df.sort_values(column, ascending): pandas sorts with quicksort, which leaves
\* the order of equal keys open, so every sorted arrangement is an outcome
sort_values(df, column, ascending) ==
    {[i \in 1..Len(df) |-> df[q[i]]] :
        q \in {p \in Permutations(1..Len(df)) :
                 \A i \in 1..(Len(df) - 1) :
                    InOrder(df[p[i]][column], df[p[i + 1]][column], ascending)}}

\* a cell as a comparison with a scalar sees it: None compares like nan (False)
Null(x) == IF x.kind = "none" THEN NaN ELSE x

\* mutant: the two lower bounds "> 0" are left out
SmallCapMask_noPositive(row, mmc, min_roe, max_pe) ==
    /\ Le(Null(row.market_cap), mmc)
    /\ Ge(Null(row.roe), min_roe)
    /\ Le(Null(row.pe_ratio), max_pe)
    /\ Gt(Null(row.profit_margin), Num(0))

\* the boolean mask of screen_small_caps, lines 79-86, on one row
SmallCapMask(row, mmc, min_roe, max_pe) ==
    /\ Le(Null(row.market_cap), mmc)
    /\ Gt(Null(row.market_cap), Num(0))
    /\ Ge(Null(row.roe), min_roe)
    /\ Le(Null(row.pe_ratio), max_pe)
    /\ Gt(Null(row.pe_ratio), Num(0))
    /\ Gt(Null(row.profit_margin), Num(0))

\* roe*100 + (20 - pe_ratio)*2 + profit_margin*50 + revenue_growth*2, lines 90-95,
\* in thousandths of a point, on a row that passed the mask
opportunity_score(row) ==
    IF row.revenue_growth.kind = "nan" THEN NaN
    ELSE Num(row.roe.v * 100 + (20000 - row.pe_ratio.v) * 2
             + row.profit_margin.v * 50 + row.revenue_growth.v * 2)

\* df[mask] from row i on
RECURSIVE SelectRows(_, _, _, _, _)
SelectRows(df, i, mmc, min_roe, max_pe) ==
    IF i > Len(df) THEN << >>
    ELSE (IF SmallCapMask(df[i], mmc, min_roe, max_pe) THEN <<df[i]>> ELSE << >>)
         \o SelectRows(df, i + 1, mmc, min_roe, max_pe)

\* FundamentalsAnalyzer.screen_small_caps; rets holds the frames the call may
\* return
screen_small_caps(cache, prov, symbols, mmc, min_roe, max_pe) ==
    LET a == analyze_companies(cache, prov, symbols)
        df == a.ret
        small_caps == SelectRows(df, 1, mmc, min_roe, max_pe)
        scored == [i \in 1..Len(small_caps) |->
                      With(small_caps[i], "opportunity_score",
                           opportunity_score(small_caps[i]))]
    IN [cache |-> a.cache,
        rets |-> IF df = << >> \/ small_caps = << >> THEN {small_caps}
                 ELSE sort_values(scored, "opportunity_score", FALSE),
        invoked |-> a.invoked, raised |-> FALSE]

\* the first n rows of a frame, two columns kept: df.head(n)[['symbol', column]]
Ranking(sorted, n, column) ==
    [i \in 1..Min(n, Len(sorted)) |->
        [symbol |-> sorted[i].symbol, value |-> sorted[i][column]]]

\* df.nsmallest(5, column) / df.nlargest(5, column)
nsmallest(df, column) == {Ranking(o, 5, column) : o \in sort_values(df, column, TRUE)}
nlargest(df, column) == {Ranking(o, 5, column) : o \in sort_values(df, column, FALSE)}

\* FundamentalsAnalyzer.compare_companies; rets holds the dicts the call may
\* return, the summary standing for df.describe() by its row count.
\* nsmallest and nlargest raise TypeError on an object column.
compare_companies(cache, prov, symbols) ==
    LET a == analyze_companies(cache, prov, symbols)
        df == a.ret
    IN IF df = << >> THEN [cache |-> a.cache, rets |-> {EmptyDict},
                           invoked |-> a.invoked, raised |-> FALSE]
       ELSE IF \E k \in {"pe_ratio", "roe", "revenue_growth", "profit_margin"} :
                   ObjectDtype(df, k)
       THEN [cache |-> a.cache, rets |-> {}, invoked |-> a.invoked, raised |-> TRUE]
       ELSE [cache |-> a.cache,
             rets |-> {[summary |-> Len(df),
                        rankings |-> [lowest_pe |-> lo, highest_roe |-> hr,
                                      highest_growth |-> hg, best_margins |-> bm]] :
                          lo \in nsmallest(df, "pe_ratio"), hr \in nlargest(df, "roe"),
                          hg \in nlargest(df, "revenue_growth"),
                          bm \in nlargest(df, "profit_margin")},
             invoked |-> a.invoked, raised |-> FALSE]

\* mutant: the table is not filtered by sector
SectorData_all(results, sec) == results

\* results[results['sector'] == sector]; an empty table gives an empty frame
SectorData(results, sec) ==
    LET Matches(row) == row.sector = Str(sec)
    IN SelectSeq(results, Matches)

\* the numbers of a column in ascending order, nulls skipped
RECURSIVE SortedValues(_, _)
SortedValues(df, column) ==
    IF df = << >> THEN << >>
    ELSE LET rest == SortedValues(Tail(df), column)
             x == Head(df)[column]
             k == Cardinality({i \in 1..Len(rest) : rest[i] <= x.v})
         IN IF x.kind # "num" THEN rest
            ELSE SubSeq(rest, 1, k) \o <<x.v>> \o SubSeq(rest, k + 1, Len(rest))

\* twice df[column].median(): the middle value, or the mean of the two middle
\* values, of the column without its nulls, doubled to stay an integer; nan
\* when the column holds no number
median2(df, column) ==
    LET vals == SortedValues(df, column)
        n == Len(vals)
    IN IF n = 0 THEN NaN ELSE Num(vals[(n + 1) \div 2] + vals[(n + 2) \div 2])

\* a cell doubled, to be compared with median2
Double(x) == IF x.kind = "num" THEN Num(2 * x.v) ELSE Null(x)

\* df[column].mean(): the sum and the count of the column's numbers, nan when
\* it holds none
mean(df, column) ==
    LET vals == SortedValues(df, column)
        Sum[i \in 0..Len(vals)] == IF i = 0 THEN 0 ELSE Sum[i - 1] + vals[i]
    IN IF vals = << >> THEN NaN ELSE [sum |-> Sum[Len(vals)], count |-> Len(vals)]

\* sector_data.nlargest(3, 'roe')[['symbol', 'roe', 'pe_ratio']]
top_performers(sector_data) ==
    {[i \in 1..Min(3, Len(o)) |->
         [symbol |-> o[i].symbol, roe |-> o[i].roe, pe_ratio |-> o[i].pe_ratio]] :
       o \in sort_values(sector_data, "roe", FALSE)}

\* mutant: the median comparisons are inclusive
undervalued_candidates_inclusive(sector_data) ==
    LET Under(row) ==
            /\ Le(Double(row.pe_ratio), median2(sector_data, "pe_ratio"))
            /\ Ge(Double(row.roe), median2(sector_data, "roe"))
        rows == SelectSeq(sector_data, Under)
    IN [i \in 1..Len(rows) |->
           [symbol |-> rows[i].symbol, pe_ratio |-> rows[i].pe_ratio,
            roe |-> rows[i].roe, market_cap |-> rows[i].market_cap]]

\* the rows with pe_ratio < median and roe > median, lines 169-172
undervalued_candidates(sector_data) ==
    LET Under(row) ==
            /\ Lt(Double(row.pe_ratio), median2(sector_data, "pe_ratio"))
            /\ Gt(Double(row.roe), median2(sector_data, "roe"))
        rows == SelectSeq(sector_data, Under)
    IN [i \in 1..Len(rows) |->
           [symbol |-> rows[i].symbol, pe_ratio |-> rows[i].pe_ratio,
            roe |-> rows[i].roe, market_cap |-> rows[i].market_cap]]

\* FundamentalsAnalyzer.create_sector_comparison; rets holds the dicts the call
\* may return.  nlargest raises TypeError on an object column.
create_sector_comparison(results, sec) ==
    LET sector_data == SectorData(results, sec)
    IN IF sector_data = << >>
       THEN [rets |-> {[error |-> Str("No data found for sector: " \o sec)]},
             raised |-> FALSE]
       ELSE IF ObjectDtype(sector_data, "roe")
       THEN [rets |-> {}, raised |-> TRUE]
       ELSE [rets |-> {[sector |-> Str(sec),
                        company_count |-> Len(sector_data),
                        avg_pe_ratio |-> mean(sector_data, "pe_ratio"),
                        avg_roe |-> mean(sector_data, "roe"),
                        avg_profit_margin |-> mean(sector_data, "profit_margin"),
                        top_performers |-> tp,
                        undervalued_candidates |-> undervalued_candidates(sector_data)] :
                          tp \in top_performers(sector_data)},
             raised |-> FALSE]

(***************************************************************************)
(* The environment: what callers pass and what the provider answers.       *)
(***************************************************************************)
\* a complete, healthy company-info payload
BaseInfo ==
    [marketCap |-> Num(1500), trailingPE |-> Num(12000), forwardPE |-> Num(11000),
     priceToBook |-> Num(2100), priceToSalesTrailing12Months |-> Num(3200),
     profitMargins |-> Num(150), operatingMargins |-> Num(200),
     returnOnEquity |-> Num(200), debtToEquity |-> Num(300),
     currentRatio |-> Num(1800), sector |-> Str("Healthcare"),
     industry |-> Str("Drug Manufacturers")]

BaseFinancials ==
    Frame(2, [x \in {"Total Revenue", "Net Income"} |->
                 IF x = "Total Revenue" THEN <<Num(110), Num(100)>>
                 ELSE <<Num(15), Num(12)>>])

BaseBalanceSheet ==
    Frame(2, [x \in {"Total Assets", "Total Liab"} |->
                 IF x = "Total Assets" THEN <<Num(2000), Num(1800)>>
                 ELSE <<Num(800), Num(700)>>])

\* the values one info field takes besides its base value
InfoValues(k) ==
    CASE k = "marketCap" -> {None, Num(3000)}
      [] k = "trailingPE" -> {None, Num(25000)}
      [] k = "returnOnEquity" -> {Num(-100)}
      [] k = "debtToEquity" -> {Num(2500)}
      [] k = "profitMargins" -> {None}
      [] k = "sector" -> {None, Str("HEALTHCARE")}
      [] OTHER -> {}

\* the info fields a payload may omit
OmittedKeys == {"marketCap", "trailingPE", "returnOnEquity", "debtToEquity", "sector"}

\* the base info with one field omitted or changed
InfoVariants ==
    {BaseInfo}
    \cup {Without(BaseInfo, k) : k \in OmittedKeys}
    \cup UNION {{With(BaseInfo, k, val) : val \in InfoValues(k)} : k \in DOMAIN BaseInfo}

\* the income statement: absent, a single period, an unreported (nan) latest
\* period, a loss in the latest period
FinancialsVariants ==
    {NoFrame,
     Frame(1, [x \in {"Total Revenue"} |-> <<Num(600)>>]),
     Frame(2, [x \in {"Total Revenue"} |-> <<NaN, Num(100)>>]),
     Frame(2, [x \in {"Total Revenue", "Net Income"} |->
                  IF x = "Total Revenue" THEN <<Num(110), Num(100)>>
                  ELSE <<Num(-5), Num(12)>>])}

\* everything the provider may answer to one request
Responses ==
    {ProviderError, MalformedPayload}
    \cup {Payload(i, BaseFinancials, BaseBalanceSheet) : i \in InfoVariants}
    \cup {Payload(BaseInfo, f, BaseBalanceSheet) : f \in FinancialsVariants}

\* the answers every symbol may get: a failure, the healthy payload, a weaker
\* balance sheet, an unreported earnings multiple, a loss-making company, and
\* a market capitalisation reported as None
CoreResponses ==
    {ProviderError, Payload(BaseInfo, BaseFinancials, BaseBalanceSheet)}
    \cup {Payload(i, BaseFinancials, BaseBalanceSheet) :
             i \in {With(BaseInfo, "debtToEquity", Num(2500)),
                    Without(BaseInfo, "trailingPE"),
                    With(BaseInfo, "returnOnEquity", Num(-100)),
                    With(BaseInfo, "marketCap", None)}}

\* the provider's answers to the requests for the symbols S: the first symbol
\* of the universe may get any answer, the others a core answer
Answers(S) ==
    LET head == S \cap {sector_samples["Healthcare"][1]}
    IN {a @@ b : a \in [head -> Responses], b \in [S \ head -> CoreResponses]}

\* the symbols callers ask for: the screened universe
Symbols == {sector_samples["Healthcare"][i] : i \in 1..MaxUniverse}

\* the symbol lists callers pass to batch analysis: none, one symbol, and two
\* symbols against the order of the universe
SymbolLists ==
    {<< >>, <<sector_samples["Healthcare"][1]>>,
     <<sector_samples["Healthcare"][2], sector_samples["Healthcare"][1]>>}

\* sector names callers pass: a table key, the key in another case, no key
SectorNames == {"Healthcare", "healthcare", "Biotech"}

\* a criteria set naming all five thresholds
FullCriteria ==
    [max_market_cap |-> Num(2000), min_revenue |-> Num(100), max_pe_ratio |-> Num(15000),
     min_roe |-> Num(100), max_debt_equity |-> Num(500)]

CriteriaKeys == {"max_market_cap", "min_revenue", "max_pe_ratio", "min_roe",
                 "max_debt_equity"}

\* the unbounded value of a threshold
Unbounded(k) == IF k \in {"min_revenue", "min_roe"} THEN NegInf ELSE Inf

\* the full set, the empty set, the full set with one key omitted, and a zero cap
CriteriaSets ==
    {FullCriteria, EmptyDict}
    \cup {Without(FullCriteria, k) : k \in CriteriaKeys}
    \cup {With(FullCriteria, "max_market_cap", Num(0))}

\* the thresholds callers pass to screen_small_caps: the defaults of lines 59-60,
\* and a permissive set
SmallCapArgs ==
    {[max_market_cap |-> Num(DefaultMaxMarketCap), min_roe |-> Num(100),
      max_pe |-> Num(15000)],
     [max_market_cap |-> Num(5000), min_roe |-> Num(-500), max_pe |-> Num(30000)]}

\* the max_market_cap argument of screen_sector
MarketCapArgs == {None, Num(0), Num(1500), Num(3000)}

\* the symbols of a list that get_fundamentals would miss in cache
Misses(cache, symbols) == {symbols[i] : i \in {j \in 1..Len(symbols) : ~CacheHit(cache, symbols[j])}}

\* history: first successful fetches, extended by the fetches of one call
RECURSIVE RecordFirst(_, _, _, _)
RecordFirst(first, syms, i, prov) ==
    IF i > Len(syms) THEN first
    ELSE RecordFirst(
            IF syms[i] \notin DOMAIN first /\ ~FetchRaises(prov[syms[i]])
            THEN With(first, syms[i], BuildFundamentals(syms[i], prov[syms[i]]))
            ELSE first,
            syms, i + 1, prov)

\* no overlapping call is under way
NoThreads == << >>

Init ==
    /\ data_cache = EmptyDict
    /\ first_fetch = EmptyDict
    /\ op = "idle"
    /\ symbol = ""
    /\ symbol_list = << >>
    /\ table = << >>
    /\ sector = ""
    /\ criteria = EmptyDict
    /\ max_market_cap = None
    /\ fundamentals = EmptyDict
    /\ pc = NoThreads
    /\ local = NoThreads
    /\ provider = EmptyDict
    /\ invoked = << >>
    /\ result = None
    /\ raised = FALSE

\* a caller runs analyzer.get_fundamentals(sym)
GetFundamentals(sym) ==
    /\ op = "idle"
    /\ \E prov \in Answers(Misses(data_cache, <<sym>>)) :
        \E g \in {get_fundamentals(data_cache, sym, prov)} :
           /\ data_cache' = g.cache
           /\ first_fetch' = RecordFirst(first_fetch, g.invoked, 1, prov)
           /\ op' = "get_fundamentals"
           /\ symbol' = sym
           /\ provider' = prov
           /\ invoked' = g.invoked
           /\ result' = g.ret
           /\ raised' = FALSE
           /\ UNCHANGED <<symbol_list, sector, criteria, max_market_cap, fundamentals, table, pc, local>>

\* a caller runs screener.screen_sector(sec, mmc)
ScreenSector(sec, mmc) ==
    /\ op = "idle"
    /\ \E prov \in Answers(Misses(data_cache, _get_sample_symbols_by_sector(sec))) :
        \E s \in {screen_sector(data_cache, prov, sec, mmc)} :
           /\ data_cache' = s.cache
           /\ first_fetch' = RecordFirst(first_fetch, s.invoked, 1, prov)
           /\ op' = "screen_sector"
           /\ sector' = sec
           /\ max_market_cap' = mmc
           /\ provider' = prov
           /\ invoked' = s.invoked
           /\ result' = IF s.raised THEN None ELSE s.ret
           /\ raised' = s.raised
           /\ UNCHANGED <<symbol, symbol_list, criteria, fundamentals, table, pc, local>>

\* a caller runs screener.screen_by_criteria(sec, c); prov2 answers the provider
\* calls of the second loop, should it miss the cache
ScreenByCriteria(sec, c) ==
    /\ op = "idle"
    /\ \E prov \in Answers(Misses(data_cache, _get_sample_symbols_by_sector(sec))) :
        \E s \in {screen_sector(data_cache, prov, sec, Get(c, "max_market_cap", None))} :
        \E prov2 \in Answers((IF s.raised THEN {} ELSE Misses(s.cache, s.ret))) :
        \E r \in {CriteriaPhase(s, prov2, c)} :
           /\ data_cache' = r.cache
           /\ first_fetch' = RecordFirst(RecordFirst(first_fetch, s.invoked, 1, prov),
                                         SubSeq(r.invoked, Len(s.invoked) + 1,
                                                Len(r.invoked)), 1, prov2)
           /\ op' = "screen_by_criteria"
           /\ sector' = sec
           /\ criteria' = c
           /\ provider' = prov
           /\ invoked' = r.invoked
           /\ result' = IF r.raised THEN None ELSE r.ret
           /\ raised' = r.raised
           /\ UNCHANGED <<symbol, symbol_list, max_market_cap, fundamentals, table, pc, local>>

\* a caller runs analyzer.analyze_companies(syms)
AnalyzeCompanies(syms) ==
    /\ op = "idle"
    /\ \E prov \in Answers(Misses(data_cache, syms)) :
        \E a \in {analyze_companies(data_cache, prov, syms)} :
           /\ data_cache' = a.cache
           /\ first_fetch' = RecordFirst(first_fetch, a.invoked, 1, prov)
           /\ op' = "analyze_companies"
           /\ symbol_list' = syms
           /\ provider' = prov
           /\ invoked' = a.invoked
           /\ result' = a.ret
           /\ raised' = FALSE
           /\ UNCHANGED <<symbol, sector, criteria, max_market_cap, fundamentals, table, pc, local>>

\* a caller runs analyzer.compare_companies(syms)
CompareCompanies(syms) ==
    /\ op = "idle"
    /\ \E prov \in Answers(Misses(data_cache, syms)) :
        \E c \in {compare_companies(data_cache, prov, syms)} :
        \E r \in (IF c.raised THEN {None} ELSE c.rets) :
           /\ data_cache' = c.cache
           /\ first_fetch' = RecordFirst(first_fetch, c.invoked, 1, prov)
           /\ op' = "compare_companies"
           /\ symbol_list' = syms
           /\ provider' = prov
           /\ invoked' = c.invoked
           /\ result' = r
           /\ raised' = c.raised
           /\ UNCHANGED <<symbol, sector, criteria, max_market_cap, fundamentals, table, pc, local>>

\* a caller runs analyzer.screen_small_caps(syms, max_market_cap, min_roe, max_pe)
ScreenSmallCaps(syms, args) ==
    /\ op = "idle"
    /\ \E prov \in Answers(Misses(data_cache, syms)) :
        \E c \in {screen_small_caps(data_cache, prov, syms, args.max_market_cap,
                                    args.min_roe, args.max_pe)} :
        \E r \in (IF c.raised THEN {None} ELSE c.rets) :
           /\ data_cache' = c.cache
           /\ first_fetch' = RecordFirst(first_fetch, c.invoked, 1, prov)
           /\ op' = "screen_small_caps"
           /\ symbol_list' = syms
           /\ criteria' = args
           /\ provider' = prov
           /\ invoked' = c.invoked
           /\ result' = r
           /\ raised' = c.raised
           /\ UNCHANGED <<symbol, sector, max_market_cap, fundamentals, table, pc, local>>

\* the caller has taken the result (or the exception); the next call may start
Return ==
    /\ op # "idle"
    /\ op' = "idle"
    /\ symbol' = ""
    /\ symbol_list' = << >>
    /\ sector' = ""
    /\ criteria' = EmptyDict
    /\ max_market_cap' = None
    /\ provider' = EmptyDict
    /\ invoked' = << >>
    /\ result' = None
    /\ raised' = FALSE
    /\ UNCHANGED <<data_cache, first_fetch, fundamentals, table, pc, local>>

Next ==
    \/ \E sym \in Symbols : GetFundamentals(sym)
    \/ \E sec \in SectorNames, mmc \in MarketCapArgs : ScreenSector(sec, mmc)
    \/ \E sec \in SectorNames, c \in CriteriaSets : ScreenByCriteria(sec, c)
    \/ \E syms \in SymbolLists : AnalyzeCompanies(syms)
    \/ \E syms \in SymbolLists : CompareCompanies(syms)
    \/ \E syms \in SymbolLists, args \in SmallCapArgs : ScreenSmallCaps(syms, args)
    \/ Return

Spec == Init /\ [][Next]_vars

(***************************************************************************)
(* The scoring rule on its own: _calculate_score applied to records drawn  *)
(* from every combination of the field values below (a field may be        *)
(* missing from the record).                                               *)
(***************************************************************************)
ScoreFieldValues(k) ==
    CASE k = "roe" -> {Num(-100), Num(0), Num(200), Num(500), Num(600)}
      [] k = "pe_ratio" -> {Num(0), Num(4999), Num(5000), Num(12000), Num(20000),
                            Num(20001), Num(21000), Inf}
      [] k = "profit_margin" -> {Num(-50), Num(10), Num(150), Num(200)}
      [] k = "revenue_growth" -> {Num(-5000), Num(0), Num(15000), Num(20000), Num(25000), NaN}
      [] k = "debt_to_equity" -> {Num(0), Num(300), Num(1000), Num(2000), Num(20000)}

ScoreKeys == {"roe", "pe_ratio", "profit_margin", "revenue_growth", "debt_to_equity"}

\* marks a field left out of a record under construction
Absent == [kind |-> "absent", v |-> 0]

\* the dict holding the fields of r that are not Absent
DictOf(r) == [k \in {x \in DOMAIN r : r[x] # Absent} |-> r[k]]

\* every record over a subset of the score fields
ScoreRecords ==
    {DictOf([roe |-> a, pe_ratio |-> b, profit_margin |-> c, revenue_growth |-> d,
             debt_to_equity |-> e]) :
        a \in ScoreFieldValues("roe") \cup {Absent},
        b \in ScoreFieldValues("pe_ratio") \cup {Absent},
        c \in ScoreFieldValues("profit_margin") \cup {Absent},
        d \in ScoreFieldValues("revenue_growth") \cup {Absent},
        e \in ScoreFieldValues("debt_to_equity") \cup {Absent}}

InitScore ==
    /\ data_cache = EmptyDict
    /\ first_fetch = EmptyDict
    /\ op = "idle"
    /\ symbol = ""
    /\ symbol_list = << >>
    /\ table = << >>
    /\ sector = ""
    /\ criteria \in {EmptyDict, FullCriteria}
    /\ max_market_cap = None
    /\ fundamentals \in ScoreRecords
    /\ pc = NoThreads
    /\ local = NoThreads
    /\ provider = EmptyDict
    /\ invoked = << >>
    /\ result = None
    /\ raised = FALSE

\* a caller runs screener._calculate_score(fundamentals, criteria)
CalculateScore ==
    /\ op = "idle"
    /\ op' = "_calculate_score"
    /\ raised' = ScoreRaises(fundamentals)
    /\ result' = IF ScoreRaises(fundamentals) THEN None
                 ELSE Num(_calculate_score(fundamentals, criteria))
    /\ UNCHANGED <<data_cache, first_fetch, symbol, symbol_list, sector, criteria,
                   max_market_cap,
                   fundamentals, table, pc, local, provider, invoked>>

NextScore == CalculateScore

SpecScore == InitScore /\ [][NextScore]_vars

(***************************************************************************)
(* The threshold test on its own: _meets_criteria applied to records whose *)
(* fields lie just inside, on and just outside the bounds of FullCriteria  *)
(* (a field may be missing from the record, and the P/E may be None).      *)
(***************************************************************************)
CriteriaFieldValues(k) ==
    CASE k = "market_cap" -> {Num(1999), Num(2000), Num(2001)}
      [] k = "revenue" -> {Num(99), Num(100), Num(101)}
      [] k = "pe_ratio" -> {Num(14999), Num(15000), Num(15001), None}
      [] k = "roe" -> {Num(99), Num(100), Num(101)}
      [] k = "debt_to_equity" -> {Num(499), Num(500), Num(501)}

\* every record over a subset of the five screened fields
CriteriaRecords ==
    {DictOf([market_cap |-> a, revenue |-> b, pe_ratio |-> c, roe |-> d,
             debt_to_equity |-> e]) :
        a \in CriteriaFieldValues("market_cap") \cup {Absent},
        b \in CriteriaFieldValues("revenue") \cup {Absent},
        c \in CriteriaFieldValues("pe_ratio") \cup {Absent},
        d \in CriteriaFieldValues("roe") \cup {Absent},
        e \in CriteriaFieldValues("debt_to_equity") \cup {Absent}}

\* criteria that constrain nothing: unlimited maxima, minima of 0
LooseCriteria ==
    [max_market_cap |-> Inf, min_revenue |-> Num(0), max_pe_ratio |-> Inf,
     min_roe |-> Num(0), max_debt_equity |-> Inf]

InitCriteria ==
    /\ data_cache = EmptyDict
    /\ first_fetch = EmptyDict
    /\ op = "idle"
    /\ symbol = ""
    /\ symbol_list = << >>
    /\ table = << >>
    /\ sector = ""
    /\ criteria \in CriteriaSets \cup {LooseCriteria}
    /\ max_market_cap = None
    /\ fundamentals \in CriteriaRecords
    /\ pc = NoThreads
    /\ local = NoThreads
    /\ provider = EmptyDict
    /\ invoked = << >>
    /\ result = None
    /\ raised = FALSE

\* a caller runs screener._meets_criteria(fundamentals, criteria)
MeetsCriteria ==
    /\ op = "idle"
    /\ op' = "_meets_criteria"
    /\ raised' = MeetsCriteriaRaises(fundamentals, criteria)
    /\ result' = IF MeetsCriteriaRaises(fundamentals, criteria) THEN None
                 ELSE _meets_criteria(fundamentals, criteria)
    /\ UNCHANGED <<data_cache, first_fetch, symbol, symbol_list, sector, criteria,
                   max_market_cap,
                   fundamentals, table, pc, local, provider, invoked>>

NextCriteria == MeetsCriteria

SpecCriteria == InitCriteria /\ [][NextCriteria]_vars

(***************************************************************************)
(* create_sector_comparison as a pure function of its table and sector,    *)
(* over every table of at most MaxRows rows.                               *)
(***************************************************************************)
MaxRows == 4

\* the rows of a results table: companies of the sector with a low or a high
\* P/E and a low or a high ROE, one without P/E, one without ROE, and a company
\* of another sector with a lower P/E and a higher ROE than any of them
RowKinds ==
    {[sector |-> Str("Healthcare"), pe_ratio |-> pe, roe |-> roe] :
        pe \in {Num(8000), Num(12000)}, roe \in {Num(100), Num(200)}}
    \cup {[sector |-> Str("Healthcare"), pe_ratio |-> None, roe |-> Num(200)],
          [sector |-> Str("Healthcare"), pe_ratio |-> Num(12000), roe |-> None],
          [sector |-> Str("Technology"), pe_ratio |-> Num(5000), roe |-> Num(300)]}

\* the table analyze_companies builds from such rows, one symbol per row
Tables ==
    {DataFrame([i \in 1..Len(t) |->
                   [symbol |-> Str("S" \o ToString(i)), sector |-> t[i].sector,
                    pe_ratio |-> t[i].pe_ratio, roe |-> t[i].roe,
                    profit_margin |-> Num(150), market_cap |-> Num(1500)]]) :
        t \in UNION {[1..n -> RowKinds] : n \in 0..MaxRows}}

\* the sector asked for: one the rows may hold, one they never hold
SectorArgs == {"Healthcare", "Energy"}

InitSector ==
    /\ data_cache = EmptyDict
    /\ first_fetch = EmptyDict
    /\ op = "idle"
    /\ symbol = ""
    /\ symbol_list = << >>
    /\ sector \in SectorArgs
    /\ criteria = EmptyDict
    /\ max_market_cap = None
    /\ fundamentals = EmptyDict
    /\ table \in Tables
    /\ pc = NoThreads
    /\ local = NoThreads
    /\ provider = EmptyDict
    /\ invoked = << >>
    /\ result = None
    /\ raised = FALSE

\* a caller runs analyzer.create_sector_comparison(table, sector)
CreateSectorComparison ==
    /\ op = "idle"
    /\ \E c \in {create_sector_comparison(table, sector)} :
        \E r \in (IF c.raised THEN {None} ELSE c.rets) :
           /\ op' = "create_sector_comparison"
           /\ result' = r
           /\ raised' = c.raised
    /\ UNCHANGED <<data_cache, first_fetch, symbol, symbol_list, sector, criteria,
                   max_market_cap, fundamentals, table, pc, local, provider, invoked>>

NextSector == CreateSectorComparison

SpecSector == InitSector /\ [][NextSector]_vars

(***************************************************************************)
(* _calculate_growth_rate as a pure function of a statement frame, over    *)
(* every revenue series of at most MaxPeriods periods.                     *)
(***************************************************************************)
MaxPeriods == 3

\* what one period of a series holds: a negative, a zero, three positive
\* amounts and an unreported one
PeriodValues == {Num(-100), Num(0), Num(90), Num(100), Num(110), NaN}

\* the statement frames: no frame, a frame without the revenue line, and a
\* revenue series of every length up to MaxPeriods, most recent first
Frames ==
    {NoFrame, Frame(2, [x \in {"Net Income"} |-> <<Num(15), Num(12)>>])}
    \cup {Frame(Len(series), [x \in {"Total Revenue"} |-> series]) :
            series \in UNION {[1..m -> PeriodValues] : m \in 0..MaxPeriods}}

InitGrowth ==
    /\ data_cache = EmptyDict
    /\ first_fetch = EmptyDict
    /\ op = "idle"
    /\ symbol = ""
    /\ symbol_list = << >>
    /\ sector = ""
    /\ criteria = EmptyDict
    /\ max_market_cap = None
    /\ fundamentals = EmptyDict
    /\ table \in Frames
    /\ pc = NoThreads
    /\ local = NoThreads
    /\ provider = EmptyDict
    /\ invoked = << >>
    /\ result = None
    /\ raised = FALSE

\* a caller runs analyzer._calculate_growth_rate(table, 'Total Revenue')
CalculateGrowthRate ==
    /\ op = "idle"
    /\ op' = "_calculate_growth_rate"
    /\ result' = _calculate_growth_rate(table, "Total Revenue")
    /\ raised' = FALSE
    /\ UNCHANGED <<data_cache, first_fetch, symbol, symbol_list, sector, criteria,
                   max_market_cap, fundamentals, table, pc, local, provider, invoked>>

NextGrowth == CalculateGrowthRate

SpecGrowth == InitGrowth /\ [][NextGrowth]_vars

(***************************************************************************)
(* Overlapping get_fundamentals calls on one shared analyzer.  The UI      *)
(* builds the analyzer once (st.cache_resource) and serves every session   *)
(* from its own thread, so calls for the same symbol may interleave        *)
(* between the cache test of line 21, the provider reads of lines 24-27    *)
(* and the store of line 51.  get_fundamentals takes no lock.              *)
(***************************************************************************)
Threads == {"session1", "session2"}

\* a thread between calls
Idle == [rec |-> EmptyDict, ret |-> None]

InitOverlap ==
    /\ data_cache = EmptyDict
    /\ first_fetch = EmptyDict
    /\ op = "idle"
    /\ symbol \in Symbols
    /\ symbol_list = << >>
    /\ table = << >>
    /\ sector = ""
    /\ criteria = EmptyDict
    /\ max_market_cap = None
    /\ fundamentals = EmptyDict
    /\ pc = [t \in Threads |-> "idle"]
    /\ local = [t \in Threads |-> Idle]
    /\ provider = EmptyDict
    /\ invoked = << >>
    /\ result = None
    /\ raised = FALSE

\* thread t enters get_fundamentals(symbol)
Enter(t) ==
    /\ pc[t] = "idle"
    /\ pc' = [pc EXCEPT ![t] = "test"]
    /\ UNCHANGED <<data_cache, first_fetch, op, symbol, symbol_list, sector, criteria,
                   max_market_cap, fundamentals, table, local, provider, invoked, result,
                   raised>>

\* lines 21-22: if symbol in self.data_cache: return self.data_cache[symbol]
TestCache(t) ==
    /\ pc[t] = "test"
    /\ IF CacheHit(data_cache, symbol)
       THEN /\ pc' = [pc EXCEPT ![t] = "returned"]
            /\ local' = [local EXCEPT ![t].ret = data_cache[symbol]]
       ELSE /\ pc' = [pc EXCEPT ![t] = "fetch"]
            /\ UNCHANGED local
    /\ UNCHANGED <<data_cache, first_fetch, op, symbol, symbol_list, sector, criteria,
                   max_market_cap, fundamentals, table, provider, invoked, result, raised>>

\* lines 24-49: the provider is read and the record built; a failure returns {}
\* by lines 54-56
Fetch(t, resp) ==
    /\ pc[t] = "fetch"
    /\ invoked' = Append(invoked, symbol)
    /\ IF FetchRaises(resp)
       THEN /\ pc' = [pc EXCEPT ![t] = "returned"]
            /\ local' = [local EXCEPT ![t].ret = EmptyDict]
       ELSE /\ pc' = [pc EXCEPT ![t] = "store"]
            /\ local' = [local EXCEPT ![t].rec = BuildFundamentals(symbol, resp)]
    /\ UNCHANGED <<data_cache, first_fetch, op, symbol, symbol_list, sector, criteria,
                   max_market_cap, fundamentals, table, provider, result, raised>>

\* lines 51-52: self.data_cache[symbol] = fundamentals; return fundamentals
Store(t) ==
    /\ pc[t] = "store"
    /\ data_cache' = CacheStore(data_cache, symbol, local[t].rec)
    /\ first_fetch' = IF symbol \in DOMAIN first_fetch THEN first_fetch
                      ELSE With(first_fetch, symbol, local[t].rec)
    /\ pc' = [pc EXCEPT ![t] = "returned"]
    /\ local' = [local EXCEPT ![t].ret = local[t].rec]
    /\ UNCHANGED <<op, symbol, symbol_list, sector, criteria, max_market_cap, fundamentals,
                   table, provider, invoked, result, raised>>

\* the caller of thread t has taken the returned value
Leave(t) ==
    /\ pc[t] = "returned"
    /\ pc' = [pc EXCEPT ![t] = "idle"]
    /\ local' = [local EXCEPT ![t] = Idle]
    /\ UNCHANGED <<data_cache, first_fetch, op, symbol, symbol_list, sector, criteria,
                   max_market_cap, fundamentals, table, provider, invoked, result, raised>>

\* at most MaxFetches provider reads are followed
MaxFetches == 3

NextOverlap ==
    \E t \in Threads :
        \/ Enter(t)
        \/ TestCache(t)
        \/ Len(invoked) < MaxFetches /\ \E resp \in CoreResponses : Fetch(t, resp)
        \/ Store(t)
        \/ Leave(t)

SpecOverlap == InitOverlap /\ [][NextOverlap]_vars

(***************************************************************************)
(* Properties                                                              *)
(***************************************************************************)
\* the provider failed: network error, unknown symbol or malformed payload
ProviderFailed(resp) == resp.kind = "error" \/ resp.malformed

\* the symbols of a list of candidates
CandidateSymbols(cands) == {cands[i].symbol.v : i \in 1..Len(cands)}

\* where a symbol stands in the universe of a sector
UniverseIndex(sec, sym) ==
    CHOOSE i \in 1..Len(_get_sample_symbols_by_sector(sec)) :
        _get_sample_symbols_by_sector(sec)[i] = sym

\* C1: every candidate screen_by_criteria returns satisfies, against the cached
\* fundamentals record of its own symbol, each of the five inclusive thresholds
\* the criteria name: market_cap <= max_market_cap, revenue >= min_revenue,
\* pe_ratio <= max_pe_ratio, roe >= min_roe, debt_to_equity <= max_debt_equity.
C1_CandidatesMeetThresholds ==
    (op = "screen_by_criteria" /\ ~raised) =>
        \A i \in 1..Len(result) :
            /\ result[i].symbol.v \in DOMAIN data_cache
            /\ LET rec == data_cache[result[i].symbol.v]
               IN /\ "max_market_cap" \in DOMAIN criteria =>
                        /\ IsNumber(rec.market_cap)
                        /\ Le(rec.market_cap, criteria["max_market_cap"])
                  /\ "min_revenue" \in DOMAIN criteria =>
                        /\ IsNumber(rec.revenue)
                        /\ Ge(rec.revenue, criteria["min_revenue"])
                  /\ "max_pe_ratio" \in DOMAIN criteria =>
                        /\ IsNumber(rec.pe_ratio)
                        /\ Le(rec.pe_ratio, criteria["max_pe_ratio"])
                  /\ "min_roe" \in DOMAIN criteria =>
                        /\ IsNumber(rec.roe)
                        /\ Ge(rec.roe, criteria["min_roe"])
                  /\ "max_debt_equity" \in DOMAIN criteria =>
                        /\ IsNumber(rec.debt_to_equity)
                        /\ Le(rec.debt_to_equity, criteria["max_debt_equity"])
                  /\ result[i].market_cap = rec.market_cap
                  /\ result[i].pe_ratio = rec.pe_ratio
                  /\ result[i].roe = rec.roe
                  /\ result[i].debt_to_equity = rec.debt_to_equity

\* a screen under all five thresholds returned one symbol and rejected a
\* symbol it had fetched
C1_Witness ==
    /\ op = "screen_by_criteria" /\ ~raised
    /\ criteria = FullCriteria
    /\ Len(result) >= 1
    /\ \E s \in DOMAIN data_cache : s \notin CandidateSymbols(result)

\* C2: the list screen_by_criteria returns is sorted by score descending, and
\* candidates of equal score stand in the order of their symbols in the
\* sector universe.
C2_SortedStable ==
    (op = "screen_by_criteria" /\ ~raised) =>
        \A i, j \in 1..Len(result) :
            i < j =>
                /\ result[i].score.v >= result[j].score.v
                /\ result[i].score.v = result[j].score.v =>
                       UniverseIndex(sector, result[i].symbol.v)
                           < UniverseIndex(sector, result[j].symbol.v)

\* the sort moved a later symbol of the universe in front of an earlier one
C2_Witness ==
    /\ op = "screen_by_criteria" /\ ~raised
    /\ Len(result) >= 2
    /\ result[1].score.v > result[2].score.v
    /\ UniverseIndex(sector, result[1].symbol.v) > UniverseIndex(sector, result[2].symbol.v)

\* the P/E term of the scoring rule as the specification words it
pe_term(pe) ==
    IF pe.kind = "num" /\ 5000 <= pe.v /\ pe.v <= 20000 THEN (20000 - pe.v) * 2
    ELSE IF pe.kind = "num" /\ pe.v < 5000 THEN 10000
    ELSE 0

\* the debt penalty of the scoring rule as the specification words it
debt_penalty(d) == IF d > 1000 THEN (d - 1000) * 10 ELSE 0

\* a numeric field of a record, 0 when the record lacks it
FieldOrZero(f, k) == IF k \in DOMAIN f THEN f[k].v ELSE 0

\* the scoring rule in closed form
ClosedFormScore(f) ==
    Max(0, Min(FieldOrZero(f, "roe") * 100, 50000)
           + pe_term(Get(f, "pe_ratio", Inf))
           + Min(FieldOrZero(f, "profit_margin") * 200, 30000)
           + Min(Max(FieldOrZero(f, "revenue_growth"), 0), 20000)
           - debt_penalty(FieldOrZero(f, "debt_to_equity")))

\* C3: for every record of numbers, _calculate_score equals
\* max(0, min(roe*100, 50) + pe_term + min(profit_margin*200, 30)
\* + min(max(revenue_growth, 0), 20) - debt_penalty); pe_ratio 5 contributes 30,
\* 4.999 contributes 10, 20 and 21 contribute 0.
C3_ScoreClosedForm ==
    /\ (op = "_calculate_score" /\ Get(fundamentals, "revenue_growth", Num(0)).kind = "num") =>
           /\ ~raised
           /\ result = Num(ClosedFormScore(fundamentals))
    /\ PeScore(Num(5000)) = 30000
    /\ PeScore(Num(4999)) = 10000
    /\ PeScore(Num(20000)) = 0
    /\ PeScore(Num(21000)) = 0

\* a record with pe_ratio exactly 5 and every other term contributing was scored
C3_Witness ==
    /\ op = "_calculate_score" /\ ~raised
    /\ fundamentals = [roe |-> Num(200), pe_ratio |-> Num(5000), profit_margin |-> Num(10),
                       revenue_growth |-> Num(15000), debt_to_equity |-> Num(2000)]
    /\ result = Num(57000)

\* C4: once a symbol has been fetched successfully, every later
\* get_fundamentals call for it returns the record of that first fetch and
\* does not invoke the provider.
C4_IdempotentOnSuccess ==
    [][(op' = "get_fundamentals" /\ symbol' \in DOMAIN first_fetch) =>
           /\ result' = first_fetch[symbol']
           /\ invoked' = << >>
           /\ ~raised']_vars

\* a get_fundamentals call was answered from the cache with the first record
C4_Witness ==
    /\ op = "get_fundamentals"
    /\ invoked = << >>
    /\ symbol \in DOMAIN first_fetch
    /\ result = first_fetch[symbol]
    /\ DOMAIN result # {}

\* C5: a get_fundamentals call for a symbol that is not cached invokes the
\* provider; if the provider fails the symbol is still not a key of the cache
\* afterwards (so the next call invokes the provider again), and if the fetch
\* succeeds its record is returned and cached.
C5_FailuresNotCached ==
    [][(op' = "get_fundamentals" /\ symbol' \notin DOMAIN data_cache) =>
           /\ invoked' = <<symbol'>>
           /\ IF ProviderFailed(provider'[symbol'])
              THEN symbol' \notin DOMAIN data_cache' /\ result' = EmptyDict
              ELSE /\ result' = BuildFundamentals(symbol', provider'[symbol'])
                   /\ symbol' \in DOMAIN data_cache'
                   /\ data_cache'[symbol'] = result']_vars

\* a get_fundamentals call ended in a provider error and left its symbol uncached
C5_Witness ==
    /\ op = "get_fundamentals"
    /\ invoked = <<symbol>>
    /\ provider[symbol].kind = "error"
    /\ symbol \notin DOMAIN data_cache
    /\ result = EmptyDict

\* C6: once a symbol has a cache entry, no operation replaces, modifies or
\* removes it.
C6_CacheWriteOnce ==
    [][\A s \in DOMAIN data_cache :
           s \in DOMAIN data_cache' /\ data_cache'[s] = data_cache[s]]_vars

\* an operation fetched one symbol while another symbol was already cached
C6_Witness ==
    /\ op # "idle"
    /\ Len(invoked) = 1
    /\ invoked[1] \in DOMAIN data_cache
    /\ Cardinality(DOMAIN data_cache) >= 2

\* C7: when the provider fails for a symbol, get_fundamentals returns the empty
\* result, does not raise, and leaves the cache as it was before the call.
C7_FailureReturnsEmpty ==
    [][(op' = "get_fundamentals" /\ invoked' = <<symbol'>>
            /\ ProviderFailed(provider'[symbol'])) =>
           /\ result' = EmptyDict
           /\ ~raised'
           /\ data_cache' = data_cache]_vars

\* a malformed payload was answered with the empty result, beside a cached symbol
C7_Witness ==
    /\ op = "get_fundamentals"
    /\ invoked = <<symbol>>
    /\ provider[symbol].malformed
    /\ result = EmptyDict
    /\ ~raised
    /\ DOMAIN data_cache # {}

\* C8: no operation of the analyzer or the screener ends by raising.
C8_NeverRaises == ~raised

\* the revenue statement of a provider answer has no latest revenue
NoRevenue(resp) ==
    \/ resp.financials.kind = "none"
    \/ "Total Revenue" \notin DOMAIN resp.financials.rows
    \/ resp.financials.ncols = 0

\* the criteria hold a finite maximum (a positive minimum) under key k
FiniteMaximum(c, k) == k \in DOMAIN c /\ c[k].kind = "num"
PositiveMinimum(c, k) == k \in DOMAIN c /\ c[k].kind = "num" /\ c[k].v > 0

\* C9: a symbol for which the provider supplies no market cap, no trailing
\* P/E or no debt/equity is not returned by screen_by_criteria when the
\* criterion on that field is a finite maximum, and one with no revenue or no
\* ROE is not returned when the criterion is a positive minimum.
C9_AbsentDataDisqualifies ==
    (op = "screen_by_criteria" /\ ~raised) =>
        \A s \in CandidateSymbols(result) \cap DOMAIN provider :
            LET resp == provider[s]
            IN /\ "marketCap" \notin DOMAIN resp.info =>
                      ~FiniteMaximum(criteria, "max_market_cap")
               /\ "trailingPE" \notin DOMAIN resp.info =>
                      ~FiniteMaximum(criteria, "max_pe_ratio")
               /\ "debtToEquity" \notin DOMAIN resp.info =>
                      ~FiniteMaximum(criteria, "max_debt_equity")
               /\ NoRevenue(resp) => ~PositiveMinimum(criteria, "min_revenue")
               /\ "returnOnEquity" \notin DOMAIN resp.info =>
                      ~PositiveMinimum(criteria, "min_roe")

\* what screen_by_criteria comes to, from the state before the call and under
\* the provider answers of the call, when it is given the criteria c
Rescreen(c) == screen_by_criteria(data_cache, provider', EmptyDict, sector', c)

\* screen_by_criteria behaved as it would have under the criteria c
SameScreen(c) ==
    /\ Rescreen(c).raised = raised'
    /\ ~raised' => Rescreen(c).ret = result'

\* C10 as stated: omitting a key is the same as setting it to its unbounded
\* value (+infinity for a maximum, -infinity for a minimum).
C10_OmittedIsUnbounded ==
    [][op' = "screen_by_criteria" =>
           \A k \in CriteriaKeys \ DOMAIN criteria' :
               SameScreen(With(criteria', k, Unbounded(k)))]_vars

\* the value an omitted key stands for
OmittedValue(k) ==
    CASE k \in {"max_pe_ratio", "max_debt_equity"} -> Inf
      [] k \in {"min_revenue", "min_roe"} -> Num(0)
      [] k = "max_market_cap" -> Num(DefaultMaxMarketCap)

\* C10 amended: omitting max_pe_ratio or max_debt_equity is the same as
\* setting it to +infinity; omitting min_revenue or min_roe is the same as
\* setting it to 0; omitting max_market_cap is the same as setting it to the
\* screener's default market-cap limit.
C10_OmittedDefaults ==
    [][op' = "screen_by_criteria" =>
           \A k \in CriteriaKeys \ DOMAIN criteria' :
               SameScreen(With(criteria', k, OmittedValue(k)))]_vars

\* a screen under criteria lacking a key returned a candidate and rejected one
C10_Witness ==
    /\ op = "screen_by_criteria" /\ ~raised
    /\ CriteriaKeys \ DOMAIN criteria # {}
    /\ DOMAIN criteria # {}
    /\ Len(result) >= 1
    /\ \E s \in DOMAIN data_cache : s \notin CandidateSymbols(result)

\* the record carries all five screened fields as numbers
CompleteRecord(f) ==
    \A k \in {"market_cap", "revenue", "pe_ratio", "roe", "debt_to_equity"} :
        k \in DOMAIN f /\ f[k].kind = "num"

\* a number is at most a bound that is a number or +infinity
AtMost(a, b) == b.kind = "inf" \/ (b.kind = "num" /\ a.v <= b.v)

\* C11: on a record carrying all five fields, under criteria naming all five
\* bounds, _meets_criteria returns true exactly when market_cap <=
\* max_market_cap, revenue >= min_revenue, pe_ratio <= max_pe_ratio,
\* roe >= min_roe and debt_to_equity <= max_debt_equity all hold, each
\* comparison inclusive.
C11_MeetsCriteriaExact ==
    (op = "_meets_criteria" /\ CompleteRecord(fundamentals)
         /\ CriteriaKeys \subseteq DOMAIN criteria) =>
        /\ ~raised
        /\ result = (/\ AtMost(fundamentals.market_cap, criteria.max_market_cap)
                     /\ fundamentals.revenue.v >= criteria.min_revenue.v
                     /\ AtMost(fundamentals.pe_ratio, criteria.max_pe_ratio)
                     /\ fundamentals.roe.v >= criteria.min_roe.v
                     /\ AtMost(fundamentals.debt_to_equity, criteria.max_debt_equity))

\* the record whose five fields equal the five bounds of FullCriteria passed
C11_Witness ==
    /\ op = "_meets_criteria"
    /\ criteria = FullCriteria
    /\ fundamentals = [market_cap |-> FullCriteria.max_market_cap,
                       revenue |-> FullCriteria.min_revenue,
                       pe_ratio |-> FullCriteria.max_pe_ratio,
                       roe |-> FullCriteria.min_roe,
                       debt_to_equity |-> FullCriteria.max_debt_equity]
    /\ result = TRUE

\* C12: _meets_criteria returns false on a record that lacks market_cap,
\* pe_ratio or debt_to_equity when the criteria hold a finite maximum for
\* that field, and on a record that lacks revenue or roe when the criteria
\* hold a minimum greater than 0 for it.
C12_MissingFieldFails ==
    (op = "_meets_criteria" /\ ~raised) =>
        /\ ("market_cap" \notin DOMAIN fundamentals
                /\ FiniteMaximum(criteria, "max_market_cap")) => result = FALSE
        /\ ("pe_ratio" \notin DOMAIN fundamentals
                /\ FiniteMaximum(criteria, "max_pe_ratio")) => result = FALSE
        /\ ("debt_to_equity" \notin DOMAIN fundamentals
                /\ FiniteMaximum(criteria, "max_debt_equity")) => result = FALSE
        /\ ("revenue" \notin DOMAIN fundamentals
                /\ PositiveMinimum(criteria, "min_revenue")) => result = FALSE
        /\ ("roe" \notin DOMAIN fundamentals
                /\ PositiveMinimum(criteria, "min_roe")) => result = FALSE

\* a record lacking only pe_ratio, every other field on its bound, was rejected
C12_Witness ==
    /\ op = "_meets_criteria" /\ ~raised
    /\ criteria = FullCriteria
    /\ fundamentals = [market_cap |-> Num(2000), revenue |-> Num(100), roe |-> Num(100),
                       debt_to_equity |-> Num(500)]
    /\ result = FALSE

\* the symbols of a sector's universe, in universe order, whose record is in
\* the cache with a market cap of at most limit and a sector label equal to
\* sec ignoring letter case
SectorMatches(cache, sec, limit) ==
    LET Matches(s) ==
            /\ s \in DOMAIN cache
            /\ cache[s].market_cap.kind = "num"
            /\ limit.kind = "inf" \/ (limit.kind = "num" /\ cache[s].market_cap.v <= limit.v)
            /\ cache[s].sector.kind = "str"
            /\ Lower(cache[s].sector.v) = Lower(sec)
    IN SelectSeq(_get_sample_symbols_by_sector(sec), Matches)

\* C13: screen_sector returns, in universe order, exactly the symbols of the
\* sector's universe whose fetch succeeded (their record is cached), whose
\* market cap is at most the effective limit and whose sector label equals the
\* requested sector ignoring letter case.
C13_ScreenSectorExact ==
    (op = "screen_sector" /\ ~raised) =>
        result = SectorMatches(data_cache, sector, MarketCapLimit(max_market_cap))

\* a screen dropped the first symbol for a failed fetch and kept the second
C13_Witness ==
    /\ op = "screen_sector" /\ ~raised
    /\ Len(invoked) = 2
    /\ ProviderFailed(provider[invoked[1]])
    /\ result = <<invoked[2]>>

\* the limit the specification gives screen_sector: the value passed, and the
\* instance default only when none is passed
PassedLimit(mmc) == IF mmc = None THEN Num(DefaultMaxMarketCap) ELSE mmc

\* C14: the limit screen_sector applies is the value passed for
\* max_market_cap, whatever it is (0 included), and the instance default only
\* when no value is passed.
C14_ParameterOverrides ==
    (op = "screen_sector" /\ ~raised) =>
        result = SectorMatches(data_cache, sector, PassedLimit(max_market_cap))

\* C15: the score _calculate_score returns is never negative, whatever the
\* record (negative ROE, margin or growth, large debt_to_equity), and so the
\* score of every candidate screen_by_criteria returns is at least 0.
C15_ScoreNonNegative ==
    /\ (op = "_calculate_score" /\ ~raised) => result.v >= 0
    /\ (op = "screen_by_criteria" /\ ~raised) =>
           \A i \in 1..Len(result) : result[i].score.v >= 0

\* a record whose terms sum to less than 0 was scored 0
C15_Witness ==
    /\ op = "_calculate_score" /\ ~raised
    /\ fundamentals = [roe |-> Num(-100), profit_margin |-> Num(-50),
                       revenue_growth |-> Num(-5000), debt_to_equity |-> Num(20000)]
    /\ result = Num(0)

\* the record of the scoring example
ExampleRecord ==
    [roe |-> Num(200), pe_ratio |-> Num(12000), profit_margin |-> Num(150),
     revenue_growth |-> Num(15000), debt_to_equity |-> Num(300)]

\* C16: for the record {roe: 0.20, pe_ratio: 12, profit_margin: 0.15,
\* revenue_growth: 15, debt_to_equity: 0.3} with empty criteria,
\* _calculate_score returns exactly 81, the P/E term being 16.
C16_ExampleScore ==
    /\ (op = "_calculate_score" /\ fundamentals = ExampleRecord /\ criteria = EmptyDict) =>
           /\ ~raised
           /\ result = Num(81000)
    /\ PeScore(ExampleRecord.pe_ratio) = 16000

\* the example record was scored under empty criteria
C16_Witness ==
    /\ op = "_calculate_score" /\ ~raised
    /\ fundamentals = ExampleRecord
    /\ criteria = EmptyDict
    /\ result = Num(81000)

\* the default _calculate_score reads for a field the record lacks
ScoreDefault(k) == IF k = "pe_ratio" THEN Inf ELSE Num(0)

\* C17: _calculate_score on the empty record returns 0 without error, and a
\* record lacking a field is scored as if the field held its default
\* (+infinity for pe_ratio, 0 for the others), under which the field's term
\* contributes nothing.
C17_EmptyRecordScoresZero ==
    op = "_calculate_score" =>
        /\ fundamentals = EmptyDict => (~raised /\ result = Num(0))
        /\ \A k \in ScoreKeys \ DOMAIN fundamentals :
              /\ raised = ScoreRaises(With(fundamentals, k, ScoreDefault(k)))
              /\ ~raised =>
                    /\ result = Num(_calculate_score(With(fundamentals, k, ScoreDefault(k)),
                                                     criteria))
                    /\ result = Num(ClosedFormScore(With(fundamentals, k, ScoreDefault(k))))

\* the empty record was scored 0 under empty criteria
C17_Witness ==
    /\ op = "_calculate_score" /\ ~raised
    /\ fundamentals = EmptyDict
    /\ criteria = EmptyDict
    /\ result = Num(0)

\* C18: the score depends on the record alone: under any other criteria set
\* _calculate_score returns the same value, and the call leaves the record,
\* the criteria and the cache as they were.
C18_ScoreIgnoresCriteria ==
    [][op' = "_calculate_score" =>
           /\ \A c2 \in CriteriaSets \cup {LooseCriteria} :
                 ~raised' => result' = Num(_calculate_score(fundamentals, c2))
           /\ fundamentals' = fundamentals
           /\ criteria' = criteria
           /\ data_cache' = data_cache]_vars

\* a record was scored under the full criteria
C18_Witness ==
    /\ op = "_calculate_score" /\ ~raised
    /\ criteria = FullCriteria
    /\ fundamentals = ExampleRecord
    /\ result = Num(81000)

\* the symbols of a list that have a record after the call, in list order
Fetched(cache, syms) ==
    LET Has(s) == s \in DOMAIN cache
    IN SelectSeq(syms, Has)

\* a table row holds the fields of a record, a null standing for each None
RowOf(row, rec) ==
    /\ DOMAIN row = DOMAIN rec
    /\ \A k \in DOMAIN rec : row[k] = rec[k] \/ (rec[k] = None /\ row[k] = NaN)

\* C19: analyze_companies(symbols) returns one row per input symbol whose
\* fetch yields a non-empty record, in input order, each row holding that
\* symbol's record, and no row for a symbol whose fetch fails; the empty list
\* gives the empty table; the call never raises.
C19_RowsInInputOrder ==
    op = "analyze_companies" =>
        /\ ~raised
        /\ Len(result) = Len(Fetched(data_cache, symbol_list))
        /\ \A i \in 1..Len(result) :
              /\ result[i].symbol = Str(Fetched(data_cache, symbol_list)[i])
              /\ RowOf(result[i], data_cache[Fetched(data_cache, symbol_list)[i]])
        /\ \A i \in 1..Len(symbol_list) :
              (symbol_list[i] \in DOMAIN provider /\ ProviderFailed(provider[symbol_list[i]]))
                  => /\ symbol_list[i] \notin DOMAIN data_cache
                     /\ \A j \in 1..Len(result) : result[j].symbol # Str(symbol_list[i])
        /\ symbol_list = << >> => result = << >>

\* two symbols were asked for, both fetches gave a record, and the table holds
\* the two rows in the order asked
C19_Witness ==
    /\ op = "analyze_companies" /\ ~raised
    /\ Len(symbol_list) = 2
    /\ Len(result) = 2
    /\ result[1].symbol = Str(symbol_list[1])
    /\ result[2].symbol = Str(symbol_list[2])
    /\ symbol_list[1] # symbol_list[2]

\* a ranking lists its rows best first: ascending for the lowest, descending
\* for the highest, a company without a value after those that have one
BestFirst(ranking, ascending) ==
    \A i \in 1..(Len(ranking) - 1) :
        \/ ranking[i + 1].value.kind = "nan"
        \/ /\ ranking[i].value.kind # "nan"
           /\ IF ascending THEN Le(ranking[i].value, ranking[i + 1].value)
              ELSE Ge(ranking[i].value, ranking[i + 1].value)

\* a ranking holds the min(5, n) best of the n fetched companies by a column:
\* its rows are distinct fetched companies with their own values, best first,
\* and no company left out is better than one listed
RankingOf(ranking, fetched, cache, column, ascending) ==
    /\ Len(ranking) = Min(5, Len(fetched))
    /\ BestFirst(ranking, ascending)
    /\ \A i \in 1..Len(ranking) :
          /\ \E j \in 1..Len(fetched) : ranking[i].symbol = Str(fetched[j])
          /\ \A j \in 1..Len(ranking) : ranking[j].symbol = ranking[i].symbol => j = i
          /\ \/ ranking[i].value = cache[ranking[i].symbol.v][column]
             \/ cache[ranking[i].symbol.v][column] = None /\ ranking[i].value = NaN
    /\ \A j \in 1..Len(fetched) :
          (\A i \in 1..Len(ranking) : ranking[i].symbol # Str(fetched[j]))
              => BestFirst(<<ranking[Len(ranking)],
                             [symbol |-> Str(fetched[j]),
                              value |-> Null(cache[fetched[j]][column])]>>, ascending)

\* C20: compare_companies(symbols) returns the empty structure exactly when no
\* input symbol yields data; otherwise it returns a summary and four rankings,
\* each the min(5, n) best of the n fetched companies: lowest P/E ascending,
\* highest ROE, highest revenue growth and highest profit margin descending.
C20_CompareCompanies ==
    op = "compare_companies" =>
        /\ ~raised
        /\ result = EmptyDict <=> Fetched(data_cache, symbol_list) = << >>
        /\ result # EmptyDict =>
              /\ DOMAIN result = {"summary", "rankings"}
              /\ DOMAIN result.rankings
                     = {"lowest_pe", "highest_roe", "highest_growth", "best_margins"}
              /\ RankingOf(result.rankings.lowest_pe, Fetched(data_cache, symbol_list),
                           data_cache, "pe_ratio", TRUE)
              /\ RankingOf(result.rankings.highest_roe, Fetched(data_cache, symbol_list),
                           data_cache, "roe", FALSE)
              /\ RankingOf(result.rankings.highest_growth, Fetched(data_cache, symbol_list),
                           data_cache, "revenue_growth", FALSE)
              /\ RankingOf(result.rankings.best_margins, Fetched(data_cache, symbol_list),
                           data_cache, "profit_margin", FALSE)

\* the positions of the table's rows whose sector is the one asked for
SectorRows(t, sec) == {i \in 1..Len(t) : t[i].sector = Str(sec)}

\* C21: create_sector_comparison(table, sector) returns the error indicator,
\* and does not raise, whenever no row of the table has the requested sector,
\* the empty table included; when a row matches, the result it returns is no
\* error indicator and carries the sector name and a company_count equal to
\* the number of matching rows.
C21_ErrorIndicator ==
    op = "create_sector_comparison" =>
        /\ SectorRows(table, sector) = {} =>
              /\ ~raised
              /\ DOMAIN result = {"error"}
        /\ (SectorRows(table, sector) # {} /\ ~raised) =>
              /\ "error" \notin DOMAIN result
              /\ result.sector = Str(sector)
              /\ result.company_count = Cardinality(SectorRows(table, sector))

\* a table of other sectors' rows gave the error indicator
C21_Witness ==
    /\ op = "create_sector_comparison" /\ ~raised
    /\ Len(table) = 2
    /\ SectorRows(table, sector) = {}
    /\ DOMAIN result = {"error"}

\* the rows among S that hold a number in a column
Valued(t, S, column) == {i \in S : t[i][column].kind = "num"}

\* the value of rank r (1 the smallest) among the numbers rows S hold in a column
ValueAtRank(t, S, column, r) ==
    LET V == Valued(t, S, column)
        v == CHOOSE x \in {t[i][column].v : i \in V} :
                /\ Cardinality({i \in V : t[i][column].v < x}) < r
                /\ r <= Cardinality({i \in V : t[i][column].v <= x})
    IN v

\* twice the median of the numbers rows S hold in a column
TwiceMedian(t, S, column) ==
    LET n == Cardinality(Valued(t, S, column))
    IN ValueAtRank(t, S, column, (n + 1) \div 2) + ValueAtRank(t, S, column, n \div 2 + 1)

\* row i is undervalued within the rows S: its P/E is strictly below their
\* median P/E and its ROE strictly above their median ROE
UndervaluedRow(t, S, i) ==
    /\ i \in Valued(t, S, "pe_ratio")
    /\ i \in Valued(t, S, "roe")
    /\ 2 * t[i].pe_ratio.v < TwiceMedian(t, S, "pe_ratio")
    /\ 2 * t[i].roe.v > TwiceMedian(t, S, "roe")

\* the position in the table of the row a symbol names
RowNamed(t, sym) == CHOOSE i \in 1..Len(t) : t[i].symbol = sym

\* C22: in what create_sector_comparison returns, the undervalued subset is,
\* in table order, exactly the rows of the requested sector whose P/E is
\* strictly below the median P/E and whose ROE is strictly above the median
\* ROE, both medians over the rows of that sector only; the top performers are
\* min(3, n) distinct rows of the n sector rows, highest ROE first, and no
\* sector row left out has a higher ROE than a listed one.
C22_UndervaluedAndTop ==
    (op = "create_sector_comparison" /\ ~raised /\ SectorRows(table, sector) # {}) =>
        LET S == SectorRows(table, sector)
            U == {i \in S : UndervaluedRow(table, S, i)}
            under == result.undervalued_candidates
            top == result.top_performers
            listed == {RowNamed(table, top[k].symbol) : k \in 1..Len(top)}
        IN /\ Len(under) = Cardinality(U)
           /\ \A k \in 1..Len(under) :
                 LET i == RowNamed(table, under[k].symbol)
                 IN /\ i \in U
                    /\ Cardinality({j \in U : j <= i}) = k
                    /\ under[k] = [symbol |-> table[i].symbol,
                                   pe_ratio |-> table[i].pe_ratio,
                                   roe |-> table[i].roe,
                                   market_cap |-> table[i].market_cap]
           /\ Len(top) = Min(3, Cardinality(S))
           /\ listed \subseteq S
           /\ Cardinality(listed) = Len(top)
           /\ \A k \in 1..Len(top) :
                 LET i == RowNamed(table, top[k].symbol)
                 IN top[k] = [symbol |-> table[i].symbol, roe |-> table[i].roe,
                              pe_ratio |-> table[i].pe_ratio]
           /\ \A k \in 1..(Len(top) - 1) :
                 \/ top[k + 1].roe.kind = "nan"
                 \/ top[k].roe.kind = "num" /\ top[k].roe.v >= top[k + 1].roe.v
           /\ \A j \in S \ listed : \A i \in listed :
                 \/ table[j].roe.kind = "nan"
                 \/ table[i].roe.kind = "num" /\ table[i].roe.v >= table[j].roe.v

\* four rows of the sector: three top performers were listed and one row was
\* found undervalued
C22_Witness ==
    /\ op = "create_sector_comparison" /\ ~raised
    /\ Cardinality(SectorRows(table, sector)) = 4
    /\ Len(result.top_performers) = 3
    /\ Len(result.undervalued_candidates) = 1

\* the revenue series of a statement frame, most recent period first
RevenueSeries(f) ==
    IF f.kind = "frame" /\ "Total Revenue" \in DOMAIN f.rows
    THEN f.rows["Total Revenue"] ELSE << >>

\* g is (current - previous) / |previous| * 100 in thousandths of a percent,
\* rounded down; nan when an operand is nan
IsGrowth(g, current, previous) ==
    IF current.kind = "nan" \/ previous.kind = "nan" THEN g = NaN
    ELSE /\ g.kind = "num"
         /\ g.v * Abs(previous.v) <= (current.v - previous.v) * 100000
         /\ (current.v - previous.v) * 100000 < (g.v + 1) * Abs(previous.v)

\* the growth the claim gives for a revenue series
GrowthOf(g, series) ==
    IF Len(series) < 2 \/ series[2] = Num(0) THEN g = Num(0)
    ELSE IsGrowth(g, series[1], series[2])

RecordFields ==
    {"symbol", "market_cap", "pe_ratio", "forward_pe", "pb_ratio", "ps_ratio", "revenue",
     "net_income", "total_assets", "total_liabilities", "revenue_growth", "profit_margin",
     "operating_margin", "roe", "debt_to_equity", "current_ratio", "sector", "industry"}

\* the provider's info key a field of the record is read from
InfoKey ==
    [market_cap |-> "marketCap", pe_ratio |-> "trailingPE", forward_pe |-> "forwardPE",
     pb_ratio |-> "priceToBook", ps_ratio |-> "priceToSalesTrailing12Months",
     profit_margin |-> "profitMargins", operating_margin |-> "operatingMargins",
     roe |-> "returnOnEquity", debt_to_equity |-> "debtToEquity",
     current_ratio |-> "currentRatio", sector |-> "sector", industry |-> "industry"]

\* the documented default of a field
FieldDefault(f) == IF f \in {"sector", "industry"} THEN Str("Unknown") ELSE Num(0)

\* the provider gave no value under a key: the key is absent or holds null
NoValue(info, k) == k \notin DOMAIN info \/ info[k] = None

\* a record has every field, and none of them is null
Populated(rec) ==
    /\ DOMAIN rec = RecordFields
    /\ \A f \in RecordFields : rec[f] # None

\* C24: what get_fundamentals returns is the empty result or a fully populated
\* record: it has every field, and each field the provider gave no value for
\* holds its default (0, or "Unknown" for sector and industry); every cached
\* record is fully populated too.
C24_FullyPopulated ==
    /\ \A sym \in DOMAIN data_cache : Populated(data_cache[sym])
    /\ op = "get_fundamentals" =>
          \/ result = EmptyDict
          \/ /\ Populated(result)
             /\ invoked = <<symbol>> =>
                   \A f \in DOMAIN InfoKey :
                      NoValue(provider[symbol].info, InfoKey[f]) => result[f] = FieldDefault(f)

\* the monetary amounts of a record
MoneyFields == {"market_cap", "revenue", "net_income", "total_assets", "total_liabilities"}

\* a value is not a negative amount (a null or nan is let through here)
NonNegative(x) == x.kind = "num" => x.v >= 0

\* C25: in every non-empty record get_fundamentals returns or the cache holds,
\* market_cap, revenue, net_income, total_assets and total_liabilities are
\* non-negative, whatever the provider reported (read leniently: none of them
\* is a negative number).
C25_MoneyNonNegative ==
    /\ \A sym \in DOMAIN data_cache :
          \A f \in MoneyFields : NonNegative(data_cache[sym][f])
    /\ (op = "get_fundamentals" /\ result # EmptyDict) =>
          \A f \in MoneyFields : NonNegative(result[f])

\* a sequence holds no element twice
NoRepeat(seq) == \A i, j \in 1..Len(seq) : seq[i] = seq[j] => i = j

\* C26: within one screen_by_criteria call the provider is invoked at most
\* once per symbol, only for symbols of the sector universe and never for a
\* symbol cached before the call; entries cached before the call are left as
\* they were, and every candidate's symbol is cached when the call returns,
\* the candidate carrying the cached record's values: the second
\* get_fundamentals of the call is a cache hit.
C26_OneFetchPerSymbol ==
    [][op' = "screen_by_criteria" =>
          /\ NoRepeat(invoked')
          /\ \A i \in 1..Len(invoked') :
                /\ \E j \in 1..Len(_get_sample_symbols_by_sector(sector')) :
                      _get_sample_symbols_by_sector(sector')[j] = invoked'[i]
                /\ invoked'[i] \notin DOMAIN data_cache
          /\ \A sym \in DOMAIN data_cache :
                sym \in DOMAIN data_cache' /\ data_cache'[sym] = data_cache[sym]
          /\ ~raised' =>
                \A i \in 1..Len(result') :
                   /\ result'[i].symbol.v \in DOMAIN data_cache'
                   /\ result'[i] = Candidate(result'[i].symbol.v,
                                             data_cache'[result'[i].symbol.v], criteria')]_vars

\* a screen on a cold cache fetched every symbol of the universe once and
\* returned a candidate
C26_Witness ==
    /\ op = "screen_by_criteria" /\ ~raised
    /\ invoked = _get_sample_symbols_by_sector(sector)
    /\ Len(invoked) = MaxUniverse
    /\ Len(result) >= 1

\* C27: when get_fundamentals calls for the same uncached symbol overlap on one
\* shared analyzer, the symbol's cache entry is written once: an entry, once
\* stored, is never replaced, and every call that returns a record returns the
\* record of the first successful fetch.
C27_WriteOnceOverlap ==
    [][/\ symbol \in DOMAIN data_cache =>
             data_cache'[symbol] = data_cache[symbol]
       /\ \A t \in Threads :
             (pc'[t] = "returned" /\ local'[t].ret # EmptyDict) =>
                 local'[t].ret = first_fetch'[symbol]]_vars

\* C28: for a sector name that is not a key of the universe table (an unknown
\* sector, or a known one written in another letter case) screen_sector and
\* screen_by_criteria return the empty list, without raising, without invoking
\* the provider, and leave the cache unchanged.
C28_UnknownSectorIsEmpty ==
    [][(op' \in {"screen_sector", "screen_by_criteria"}
          /\ sector' \notin DOMAIN sector_samples) =>
            /\ ~raised'
            /\ result' = << >>
            /\ invoked' = << >>
            /\ data_cache' = data_cache]_vars

\* with records already cached, a screen of "healthcare" returned nothing
C28_Witness ==
    /\ op = "screen_by_criteria" /\ ~raised
    /\ sector = "healthcare"
    /\ result = << >>
    /\ invoked = << >>
    /\ DOMAIN data_cache # {}

\* roe*100 + (20 - pe_ratio)*2 + profit_margin*50 + revenue_growth*2 of a row
\* of numbers, in thousandths of a point
OpportunityOf(row) ==
    row.roe.v * 100 + (20000 - row.pe_ratio.v) * 2 + row.profit_margin.v * 50
        + row.revenue_growth.v * 2

\* C29: every row screen_small_caps(symbols, max_market_cap, min_roe, max_pe)
\* returns is a fetched company of the list with 0 < market_cap <=
\* max_market_cap, roe >= min_roe, 0 < pe_ratio <= max_pe and profit_margin > 0;
\* its opportunity_score is roe*100 + (20 - pe_ratio)*2 + profit_margin*50 +
\* revenue_growth*2 and the rows are in descending order of it (a score that
\* is nan, from an unreported growth, comes last); when no symbol yields data
\* the empty table is returned.
C29_SmallCapRows ==
    (op = "screen_small_caps" /\ ~raised) =>
        /\ \A i \in 1..Len(result) :
              LET row == result[i]
              IN /\ \E j \in 1..Len(symbol_list) : row.symbol = Str(symbol_list[j])
                 /\ row.symbol.v \in DOMAIN data_cache
                 /\ \A k \in {"market_cap", "roe", "pe_ratio", "profit_margin"} :
                       /\ row[k].kind = "num"
                       /\ row[k] = data_cache[row.symbol.v][k]
                 /\ 0 < row.market_cap.v
                 /\ row.market_cap.v <= criteria.max_market_cap.v
                 /\ row.roe.v >= criteria.min_roe.v
                 /\ 0 < row.pe_ratio.v
                 /\ row.pe_ratio.v <= criteria.max_pe.v
                 /\ row.profit_margin.v > 0
                 /\ IF row.revenue_growth.kind = "num"
                    THEN row.opportunity_score = Num(OpportunityOf(row))
                    ELSE row.opportunity_score = NaN
        /\ \A i \in 1..(Len(result) - 1) :
              \/ result[i + 1].opportunity_score = NaN
              \/ /\ result[i].opportunity_score.kind = "num"
                 /\ result[i].opportunity_score.v >= result[i + 1].opportunity_score.v
        /\ Fetched(data_cache, symbol_list) = << >> => result = << >>

\* two companies passed the screen and came back in the reverse of the order
\* asked, the higher score first
C29_Witness ==
    /\ op = "screen_small_caps" /\ ~raised
    /\ Len(result) = 2
    /\ result[1].symbol = Str(symbol_list[2])
    /\ result[1].opportunity_score.kind = "num"
    /\ result[2].opportunity_score.kind = "num"
    /\ result[1].opportunity_score.v > result[2].opportunity_score.v

\* C30: _calculate_score returns at most 130 for every record (50 for ROE, 30
\* for P/E, which takes pe_ratio = 5, 30 for profit margin, 20 for revenue
\* growth), so with the floor every score, and the score of every candidate
\* of screen_by_criteria, lies in [0, 130].
C30_ScoreAtMost130 ==
    /\ (op = "_calculate_score" /\ ~raised) =>
          /\ 0 <= result.v
          /\ result.v <= 130000
          /\ result.v = 130000 => Get(fundamentals, "pe_ratio", Inf) = Num(5000)
    /\ (op = "screen_by_criteria" /\ ~raised) =>
          \A i \in 1..Len(result) :
             0 <= result[i].score.v /\ result[i].score.v <= 130000

\* a record beyond every cap, with pe_ratio 5 and no debt penalty, scored 130
C30_Witness ==
    /\ op = "_calculate_score" /\ ~raised
    /\ fundamentals = [roe |-> Num(600), pe_ratio |-> Num(5000), profit_margin |-> Num(200),
                       revenue_growth |-> Num(25000), debt_to_equity |-> Num(1000)]
    /\ result = Num(130000)

====
